---- MODULE Spec2Model ----
(***************************************************************************)
(* A model of ipymd's nearest-neighbour analysis                           *)
(* (ipymd/atom_analysis/nearest_neighbour.py) and of the helpers it calls. *)
(*                                                                         *)
(* Conventions                                                             *)
(*  - An atom table (pandas DataFrame) is a function from the row          *)
(*    positions 0..N-1 to rows; a row carries its index label, its         *)
(*    position and its type.  Row positions are 0-based as in the code.    *)
(*  - Coordinates are integers on a grid whose unit is 0.01 Angstrom, so   *)
(*    that the code's literal 0.01 is one grid unit.  A distance d is kept *)
(*    as its square d2; for non-negative a, b:  a < b  iff  a*a < b*b.     *)
(*  - A fraction in (0,1] (accuracy) is num/AccDen.                        *)
(***************************************************************************)
EXTENDS Integers, Sequences, FiniteSets, TLC

\* atoms_df, args, ret: the caller's table, the call made and what it returned;
\* manip: an Atom_Manipulation object; vis: a Visualise_Sim object
VARIABLES atoms_df, args, ret, manip, vis

vars == <<atoms_df, args, ret, manip, vis>>

(***************************************************************************)
(* Bounds of the model.                                                    *)
(***************************************************************************)
\* largest number of rows of an atom table handed to common_neighbour_analysis
MaxAtoms == 5
\* largest number of rows of a table that is analysed again with its rows permuted
MaxRelabelAtoms == 4
\* accuracies are the fractions num/AccDen, num in 1..AccDen
AccDen == 4
\* largest count of one signature in a counter handed to the classifier
MaxCount == 13
\* largest number of distinct signatures in such a counter
MaxKeys == 2
\* half the edge of the cubic cell of the periodic lattices, in grid units
HalfCell == 2

\* atoms of a table handed to repeat_cell
MaxRepeatAtoms == 3

\* atoms of a table handed to vacancy_identification
MaxVacancyAtoms == 3

\* atoms of a table handed to guess_bonds
MaxBondAtoms == 4

(***************************************************************************)
(* Generic helpers.                                                        *)
(***************************************************************************)
NoTable == [i \in {} |-> 0]

NRows(df) == Cardinality(DOMAIN df)

\* df.append(row): the table with one more row at the end
AppendRow(df, row) ==
    [i \in 0..NRows(df) |-> IF i < NRows(df) THEN df[i] ELSE row]

Max(S) == CHOOSE m \in S : \A n \in S : n <= m

Min(S) == CHOOSE m \in S : \A n \in S : m <= n

Min2(a, b) == IF a < b THEN a ELSE b

RECURSIVE SumOver(_, _)
SumOver(f, S) ==
    IF S = {} THEN 0
    ELSE LET e == CHOOSE e \in S : TRUE IN f[e] + SumOver(f, S \ {e})

Sq(a) == a * a

\* ((r_array[i] - r_array[j])**2).sum()
Dist2(p, q) == Sq(p.x - q.x) + Sq(p.y - q.y) + Sq(p.z - q.z)

(***************************************************************************)
(* scipy.spatial.cKDTree as the code uses it.                              *)
(*                                                                         *)
(* query(x, k, distance_upper_bound) returns for each query point the k    *)
(* nearest points of the tree that are closer than the upper bound, in     *)
(* ascending distance, padded with (inf, n) entries.  Which of several     *)
(* equidistant points comes first, and which of them survive a cut at k,   *)
(* is not fixed by the library's contract: every outcome is modelled.      *)
(* An outcome is [first |-> ids[0], ids |-> set of the ids found].         *)
(***************************************************************************)
InRange(pts, q, ub2) == {i \in DOMAIN pts : Dist2(pts[i], q) < ub2}

\* the sets of ids a k-nearest query may return for the query point q
KNearestSets(pts, q, k, ub2) ==
    LET cand == InRange(pts, q, ub2)
        d(i) == Dist2(pts[i], q)
    IN  IF Cardinality(cand) <= k THEN {cand}
        ELSE LET cut  == CHOOSE c \in {d(i) : i \in cand} :
                            /\ Cardinality({i \in cand : d(i) <= c}) >= k
                            /\ Cardinality({i \in cand : d(i) < c}) < k
                 sure == {i \in cand : d(i) < cut}
                 tied == {i \in cand : d(i) = cut}
             IN  {sure \cup T : T \in {U \in SUBSET tied :
                                   Cardinality(U) = k - Cardinality(sure)}}

\* ids[0] of an outcome: a nearest one of the ids found, n when none is found
FirstIds(pts, q, S) ==
    IF S = {} THEN {NRows(pts)}
    ELSE {s \in S : \A t \in S : Dist2(pts[s], q) <= Dist2(pts[t], q)}

QueryPoint(pts, q, k, ub2) ==
    UNION {{[first |-> f, ids |-> S] : f \in FirstIds(pts, q, S)} :
              S \in KNearestSets(pts, q, k, ub2)}

\* tree.query(queries, k, distance_upper_bound): one outcome per query row,
\* as a sequence (row r of the queries is element r+1)
RECURSIVE QueryUpTo(_, _, _, _, _)
QueryUpTo(pts, queries, k, ub2, n) ==
    IF n = 0 THEN {<<>>}
    ELSE {Append(t, o) : t \in QueryUpTo(pts, queries, k, ub2, n - 1),
                         o \in QueryPoint(pts, queries[n - 1], k, ub2)}

Query(pts, queries, k, ub2) == QueryUpTo(pts, queries, k, ub2, NRows(queries))

(***************************************************************************)
(* _createTreeFromEdges and _longest_path.                                 *)
(***************************************************************************)
\* an edge is the sorted pair <<v1, v2>>; the adjacency lists are kept as
\* sets, their order only decides which of several longest paths is returned
_createTreeFromEdges(edges) ==
    LET nodes == {e[1] : e \in edges} \cup {e[2] : e \in edges}
    IN  [v \in nodes |->
            {e[2] : e \in {f \in edges : f[1] = v}}
              \cup {e[1] : e \in {f \in edges : f[2] = v}}]

NoNode == -1

\* _longest_path with line 43 in place of lines 44-45: loops are not completed
RECURSIVE LongestPathPop(_, _, _)
LongestPathPop(start, tree, lastnode) ==
    IF start \notin DOMAIN tree THEN 0
    ELSE LET new_tree == [v \in DOMAIN tree \ {start} |-> tree[v]]
             nodes    == tree[start]
         IN  Max({0} \cup {LongestPathPop(node, new_tree, start) :
                              node \in nodes \ {lastnode}}) + 1

\* _longest_path without lines 49-50: the walk may step straight back
RECURSIVE LongestPathBack(_, _, _)
LongestPathBack(start, tree, lastnode) ==
    IF start \notin DOMAIN tree THEN 0
    ELSE LET new_tree == [tree EXCEPT ![start] = {}]
             nodes    == tree[start]
         IN  Max({0} \cup {LongestPathBack(node, new_tree, start) :
                              node \in nodes}) + 1

\* a Counter that holds each string once
CounterOfSet(list) == [s \in {list[i] : i \in DOMAIN list} |-> 1]

\* len(_longest_path(start, tree, lastnode)); lastnode = None is NoNode
RECURSIVE _longest_path(_, _, _)
_longest_path(start, tree, lastnode) ==
    IF start \notin DOMAIN tree THEN 0
    ELSE LET new_tree == [tree EXCEPT ![start] = {}]
             nodes    == tree[start]
         IN  Max({0} \cup {_longest_path(node, new_tree, start) :
                              node \in nodes \ {lastnode}}) + 1

(***************************************************************************)
(* common_neighbour_analysis.                                              *)
(***************************************************************************)
Digit(d) ==
    CASE d = 0 -> "0" [] d = 1 -> "1" [] d = 2 -> "2" [] d = 3 -> "3"
      [] d = 4 -> "4" [] d = 5 -> "5" [] d = 6 -> "6" [] d = 7 -> "7"
      [] d = 8 -> "8" [] d = 9 -> "9"

\* '{0}'.format(n) of a non-negative integer
RECURSIVE IntStr(_)
IntStr(n) == IF n < 10 THEN Digit(n) ELSE IntStr(n \div 10) \o Digit(n % 10)

\* '{0},{1},{2}'.format(j,k,l)
FormatJkl(j, k, l) == IntStr(j) \o "," \o IntStr(k) \o "," \o IntStr(l)

\* the literal 0.01 of the mask, in grid units
SelfDist == 1

\* nn_ids without the mask dists > 0.01: the atom is its own neighbour
NnIdsUnmasked(pts, knn) ==
    LET n    == NRows(pts)
        keys == {knn[p + 1].first : p \in 0..(n - 1)}
        last(key) == Max({p \in 0..(n - 1) : knn[p + 1].first = key})
    IN  [key \in keys |-> knn[last(key) + 1].ids]

\* the dictionary nn_ids built from the query's outcomes: a later row
\* overwrites an earlier one filed under the same key ids[0]
NnIds(pts, knn) ==
    LET n    == NRows(pts)
        keys == {knn[p + 1].first : p \in 0..(n - 1)}
        last(key) == Max({p \in 0..(n - 1) : knn[p + 1].first = key})
    IN  [key \in keys |->
            {i \in knn[last(key) + 1].ids :
                Dist2(pts[i], pts[last(key)]) > Sq(SelfDist)}]

\* the shared neighbours taken to be all of the neighbour's neighbours
CommonNnsAll(nn_ids, lid, nn) == nn_ids[nn]

\* j: number of shared nearest neighbours
CommonNns(nn_ids, lid, nn) == nn_ids[nn] \cap nn_ids[lid]

\* nn_bonds without the sort: a bond listed from both ends is kept twice
NnBondsUnsorted(nn_ids, common_nns) ==
    {f \in common_nns \X common_nns : f[2] \in nn_ids[f[1]]}

\* nn_bonds: for every shared neighbour c and every d of nn_ids[c] that is
\* shared too, the sorted pair of c and d, kept once
NnBonds(nn_ids, common_nns) ==
    {<<Min2(e[1], e[2]), Max({e[1], e[2]})>> :
        e \in {f \in common_nns \X common_nns : f[2] \in nn_ids[f[1]]}}

\* l: longest chain of nearest neighbour bonds
ChainLength(nn_bonds) ==
    LET tree == _createTreeFromEdges(nn_bonds)
    IN  Max({0} \cup {_longest_path(node, tree, NoNode) - 1 :
                          node \in DOMAIN tree})

Jkl(nn_ids, lid, nn) ==
    LET common_nns == CommonNns(nn_ids, lid, nn)
        nn_bonds   == NnBonds(nn_ids, common_nns)
    IN  [j |-> Cardinality(common_nns),
         k |-> Cardinality(nn_bonds),
         l |-> ChainLength(nn_bonds)]

\* collections.Counter of the strings of a list given as [position -> string]
Counter(list) ==
    [s \in {list[i] : i \in DOMAIN list} |->
        Cardinality({i \in DOMAIN list : list[i] = s})]

\* counter[key], 0 for a key the counter does not hold
Count(counter, key) == IF key \in DOMAIN counter THEN counter[key] ELSE 0

\* the column filled in the order the dictionary happens to list its keys
CnaColumnUnsorted(df, jkls) ==
    [r \in DOMAIN df |-> Counter(jkls[NRows(df) - 1 - r])]

\* df['cna'] = [jkls[key] for key in sorted(jkls)], jkls having a key per row
CnaColumn(df, jkls) == [r \in DOMAIN df |-> Counter(jkls[r])]

\* dists[0] == 0 holds for every row of the query
AssertSelf(pts, knn) ==
    \A p \in DOMAIN pts :
        /\ knn[p + 1].first \in DOMAIN pts
        /\ Dist2(pts[knn[p + 1].first], pts[p]) = 0

\* the ids looked up in nn_ids while the signatures of lid are computed
LookedUp(nn_ids, lid) ==
    nn_ids[lid] \cup
    UNION {nn_ids[nn] \cap nn_ids[lid] :
              nn \in nn_ids[lid] \cap DOMAIN nn_ids}

\* lines 388-450 once the lattice and the query's outcome knn are known
CnaOf(df, lattice_df, knn) ==
    IF ~AssertSelf(lattice_df, knn) THEN [status |-> "AssertionError"]
    ELSE
    LET max_id == NRows(df) - 1
        nn_ids == NnIds(lattice_df, knn)
        lids   == {lid \in DOMAIN nn_ids : lid <= max_id}
    IN  IF \E lid \in lids : ~(LookedUp(nn_ids, lid) \subseteq DOMAIN nn_ids)
        THEN [status |-> "KeyError"]
        ELSE IF Cardinality(lids) # NRows(df)
        THEN [status |-> "ValueError"]
        ELSE LET jkls == [lid \in lids |->
                            [nn \in nn_ids[lid] |->
                                LET s == Jkl(nn_ids, lid, nn)
                                IN  FormatJkl(s.j, s.k, s.l)]]
             IN  [status |-> "ok",
                  nn_ids |-> nn_ids,
                  jkls   |-> jkls,
                  cna    |-> CnaColumn(df, jkls)]

(***************************************************************************)
(* The atom tables and the arguments the analysis is exercised on.         *)
(***************************************************************************)
Row(i, site, t) ==
    [index |-> i, x |-> site[1], y |-> site[2], z |-> site[3], type |-> t]

\* positions of a small cluster; <<0,0,1>> lies within 0.01 of <<0,0,0>>
Sites ==
    << <<0, 0, 0>>, <<0, 0, 1>>, <<2, 0, 0>>, <<0, 2, 0>>,
       <<1, 1, 2>>, <<3, 1, 1>> >>

SiteOf(row) == CHOOSE s \in DOMAIN Sites : Sites[s] = <<row.x, row.y, row.z>>

UpperBounds == {2, 4}

MaxNeighboursArg == 1..(MaxAtoms - 1)

NoCall == [fn |-> "none"]

NoRet == [status |-> "none"]

CnaDone == args.fn = "common_neighbour_analysis" /\ ret.status = "ok"

\* no Atom_Manipulation object has been constructed
NoManip == [state |-> "none"]

\* a Visualise_Sim object as its constructor leaves it: every list of
\* objects to render is empty and no axes are set
NoAxes == [state |-> "none"]

NewVis == [atoms |-> <<>>, bonds |-> <<>>, boxes |-> <<>>, hexagons |-> <<>>, axes |-> NoAxes, triangles |-> <<>>]

Init ==
    /\ atoms_df = NoTable
    /\ args = NoCall
    /\ ret = NoRet
    /\ manip = NoManip
    /\ vis = NewVis

\* the caller appends a row to the table it is going to analyse
AddAtom ==
    /\ args = NoCall
    /\ NRows(atoms_df) < MaxAtoms
    /\ \E s \in DOMAIN Sites :
          /\ \A r \in DOMAIN atoms_df : SiteOf(atoms_df[r]) < s
          /\ atoms_df' = AppendRow(atoms_df, Row(NRows(atoms_df), Sites[s], "X"))
    /\ UNCHANGED <<args, ret, manip, vis>>

\* common_neighbour_analysis(atoms_df, upper_bound, max_neighbours)
common_neighbour_analysis ==
    /\ args = NoCall
    /\ NRows(atoms_df) > 0
    /\ \E ub \in UpperBounds, mn \in MaxNeighboursArg :
          \E knn \in Query(atoms_df, atoms_df, mn + 1, Sq(ub)) :
             /\ args' = [fn |-> "common_neighbour_analysis",
                         upper_bound |-> ub, max_neighbours |-> mn]
             /\ ret' = CnaOf(atoms_df, atoms_df, knn)
    /\ UNCHANGED <<atoms_df, manip, vis>>

\* the permutations of the rows of df, the identity left out
Relabelings(df) ==
    {pi \in [DOMAIN df -> DOMAIN df] :
        /\ \A a \in DOMAIN df, b \in DOMAIN df : a # b => pi[a] # pi[b]
        /\ \E a \in DOMAIN df : pi[a] # a}

\* df with its rows in the order pi and a fresh index: row r is df's row pi[r]
Permuted(df, pi) == [r \in DOMAIN df |-> [df[pi[r]] EXCEPT !.index = r]]

\* the caller permutes the rows of the table it has analysed and runs
\* common_neighbour_analysis again with the same arguments
relabelled_analysis ==
    /\ CnaDone
    /\ NRows(atoms_df) <= MaxRelabelAtoms
    /\ \E pi \in Relabelings(atoms_df) :
          \E knn \in Query(Permuted(atoms_df, pi), Permuted(atoms_df, pi),
                           args.max_neighbours + 1, Sq(args.upper_bound)) :
             /\ args' = [fn |-> "relabelled_analysis",
                         upper_bound |-> args.upper_bound,
                         max_neighbours |-> args.max_neighbours,
                         perm |-> pi, before |-> ret]
             /\ ret' = CnaOf(Permuted(atoms_df, pi), Permuted(atoms_df, pi), knn)
    /\ UNCHANGED <<atoms_df, manip, vis>>

Next ==
    \/ AddAtom
    \/ common_neighbour_analysis
    \/ relabelled_analysis

Spec == Init /\ [][Next]_vars

(***************************************************************************)
(* Atom_Manipulation.repeat_cell and the periodic lattices.                *)
(***************************************************************************)
\* the row shifted by i*a + j*b + k*c; it keeps its index label
Shifted(row, vectors, i, j, k) ==
    [row EXCEPT
        !.x = @ + i * vectors[1][1] + j * vectors[2][1] + k * vectors[3][1],
        !.y = @ + i * vectors[1][2] + j * vectors[2][2] + k * vectors[3][2],
        !.z = @ + i * vectors[1][3] + j * vectors[2][3] + k * vectors[3][3]]

\* the loops with range(lo, hi) in place of range(lo, hi + 1)
OffsetsExclusive(reps) ==
    LET nb == reps[2][2] - reps[2][1]
        nc == reps[3][2] - reps[3][1]
        na == reps[1][2] - reps[1][1]
    IN  [n \in 1..(na * nb * nc) |->
            <<reps[1][1] + (n - 1) \div (nb * nc),
              reps[2][1] + (((n - 1) \div nc) % nb),
              reps[3][1] + ((n - 1) % nc)>>]

\* the offsets (i, j, k) in the order of the three nested loops
Offsets(reps) ==
    LET nb == reps[2][2] - reps[2][1] + 1
        nc == reps[3][2] - reps[3][1] + 1
        na == reps[1][2] - reps[1][1] + 1
    IN  [n \in 1..(na * nb * nc) |->
            <<reps[1][1] + (n - 1) \div (nb * nc),
              reps[2][1] + (((n - 1) \div nc) % nb),
              reps[3][1] + ((n - 1) % nc)>>]

\* pd.concat(dfs, ignore_index=True): the labels are the row positions
ConcatShiftedReindexed(df, vectors, offs) ==
    [p \in 0..(Len(offs) * NRows(df) - 1) |->
        LET o == offs[p \div NRows(df) + 1]
        IN  [Shifted(df[p % NRows(df)], vectors, o[1], o[2], o[3])
                EXCEPT !.index = p]]

\* pd.concat(dfs) of the copies of df shifted by the offsets offs in order
ConcatShifted(df, vectors, offs) ==
    [p \in 0..(Len(offs) * NRows(df) - 1) |->
        LET o == offs[p \div NRows(df) + 1]
        IN  Shifted(df[p % NRows(df)], vectors, o[1], o[2], o[3])]

\* repeat_cell(vectors, repetitions): one shifted copy per offset
repeat_cell(df, vectors, reps) == ConcatShifted(df, vectors, Offsets(reps))

RECURSIVE Without(_, _)
Without(seq, e) ==
    IF seq = <<>> THEN <<>>
    ELSE IF Head(seq) = e THEN Without(Tail(seq), e)
    ELSE <<Head(seq)>> \o Without(Tail(seq), e)

\* repeat_cell((-1,1),(-1,1),(-1,1), original_first=True) of an
\* Atom_Manipulation made with the lattice vectors: the unshifted copy
\* first, then the other copies in the order of the loops
RepeatCellOriginalFirst(df, vectors) ==
    LET reps == << <<-1, 1>>, <<-1, 1>>, <<-1, 1>> >>
    IN  ConcatShifted(df, vectors,
                      << <<0, 0, 0>> >> \o Without(Offsets(reps), <<0, 0, 0>>))

\* repeat_meta=None
NoMeta == <<>>

\* the lattice with its copies in the order of the loops
CnaLatticeLoopOrder(df, repeat_meta) ==
    IF repeat_meta # NoMeta
    THEN repeat_cell(df, repeat_meta, << <<-1, 1>>, <<-1, 1>>, <<-1, 1>> >>)
    ELSE df

\* the lattice without its periodic images
CnaLatticeNoWrap(df, repeat_meta) == df

\* lines 391-396: the lattice the neighbours are searched in
CnaLattice(df, repeat_meta) ==
    IF repeat_meta # NoMeta THEN RepeatCellOriginalFirst(df, repeat_meta)
    ELSE df

(***************************************************************************)
(* _equala and the classification loop of cna_categories.                  *)
(***************************************************************************)
\* the upper end of the window left at the expected count
EqualaNoUpper(i, j, num) ==
    /\ j * num <= i * AccDen
    /\ i * AccDen <= j * AccDen

\* _equala(i, j, accuracy) for accuracy = num/AccDen, both sides of each
\* comparison multiplied by AccDen
_equala(i, j, num) ==
    /\ j * num <= i * AccDen
    /\ i * AccDen <= j * AccDen + j * (AccDen - num)

\* the branch for FCC tested before the branch for HCP
CategoryFccFirst(counter, num) ==
    IF _equala(Count(counter, "4,2,1"), 12, num) THEN "FCC"
    ELSE IF /\ _equala(Count(counter, "4,2,1"), 6, num)
            /\ _equala(Count(counter, "4,2,2"), 6, num) THEN "HCP"
    ELSE IF /\ _equala(Count(counter, "6,6,6"), 8, num)
            /\ _equala(Count(counter, "4,4,4"), 6, num) THEN "BCC"
    ELSE IF /\ _equala(Count(counter, "5,4,3"), 12, num)
            /\ _equala(Count(counter, "6,6,3"), 4, num) THEN "Diamond"
    ELSE IF _equala(Count(counter, "5,5,5"), 12, num) THEN "Icosahedral"
    ELSE "Other"

\* the if/elif chain of lines 494-505 for one counter
Category(counter, num) ==
    IF /\ _equala(Count(counter, "4,2,1"), 6, num)
       /\ _equala(Count(counter, "4,2,2"), 6, num) THEN "HCP"
    ELSE IF _equala(Count(counter, "4,2,1"), 12, num) THEN "FCC"
    ELSE IF /\ _equala(Count(counter, "6,6,6"), 8, num)
            /\ _equala(Count(counter, "4,4,4"), 6, num) THEN "BCC"
    ELSE IF /\ _equala(Count(counter, "5,4,3"), 12, num)
            /\ _equala(Count(counter, "6,6,3"), 4, num) THEN "Diamond"
    ELSE IF _equala(Count(counter, "5,5,5"), 12, num) THEN "Icosahedral"
    ELSE "Other"

\* lines 490-506: the column of labels for the column cnas of counters
Categories(cnas, num) == [r \in DOMAIN cnas |-> Category(cnas[r], num)]

Accuracies == 1..AccDen

\* the expected counts the classifier tests against
Expected == {4, 6, 8, 12}

\* the signatures a drawn counter may hold: those of the rules and another
SigKeys ==
    {"4,2,1", "4,2,2", "6,6,6", "4,4,4", "5,4,3", "6,6,3", "5,5,5", "3,3,3"}

\* the counters with at most MaxKeys signatures, each held 1..MaxCount times
Counters ==
    UNION {[K -> 1..MaxCount] :
              K \in {L \in SUBSET SigKeys : Cardinality(L) <= MaxKeys}}

\* _equala(i, j, accuracy) called on its own
equala ==
    /\ args = NoCall
    /\ \E i \in 0..(2 * MaxCount), j \in Expected, num \in Accuracies :
          /\ args' = [fn |-> "_equala", i |-> i, j |-> j, accuracy |-> num]
          /\ ret' = [status |-> "ok", value |-> _equala(i, j, num)]
    /\ UNCHANGED <<atoms_df, manip, vis>>

\* the classification of cna_categories on the column that
\* common_neighbour_analysis returned for a one-row table
classification ==
    /\ args = NoCall
    /\ \E counter \in Counters, num \in Accuracies :
          /\ args' = [fn |-> "classification", accuracy |-> num,
                      cnas |-> (0 :> counter)]
          /\ ret' = [status |-> "ok", cna |-> Categories((0 :> counter), num)]
    /\ UNCHANGED <<atoms_df, manip, vis>>

NextClassify ==
    \/ equala
    \/ classification

SpecClassify == Init /\ [][NextClassify]_vars

(***************************************************************************)
(* cna_categories and coordination, on tables cut from a cubic cell.       *)
(***************************************************************************)
\* the four sites of the conventional face-centred cubic cell
CellSites ==
    << <<0, 0, 0>>, <<HalfCell, HalfCell, 0>>, <<HalfCell, 0, HalfCell>>,
       <<0, HalfCell, HalfCell>> >>

CellSiteOf(row) ==
    CHOOSE s \in DOMAIN CellSites : CellSites[s] = <<row.x, row.y, row.z>>

\* the lattice vectors a, b, c of the cubic cell
CubicMeta ==
    << <<2 * HalfCell, 0, 0>>, <<0, 2 * HalfCell, 0>>, <<0, 0, 2 * HalfCell>> >>

MetaArgs == {NoMeta, CubicMeta}

\* cutoffs from above the first shell of neighbours up to the second
LatticeUpperBounds == (HalfCell + 1)..(2 * HalfCell)

LatticeMaxNeighbours == {12, 24}

\* a position outside the cell, farther from its sites than the cutoffs
FarSite == <<0, 0, 3 * HalfCell + 1>>

IsFar(row) == <<row.x, row.y, row.z>> = FarSite

\* the caller appends a row at a site of the cell
AddCellAtom ==
    /\ args = NoCall
    /\ \A r \in DOMAIN atoms_df : ~IsFar(atoms_df[r])
    /\ \E s \in DOMAIN CellSites, first \in {0, 1} :
          /\ \A r \in DOMAIN atoms_df : CellSiteOf(atoms_df[r]) < s
          /\ LET label == IF NRows(atoms_df) = 0 THEN first
                          ELSE atoms_df[NRows(atoms_df) - 1].index + 1
             IN  atoms_df' =
                    AppendRow(atoms_df, Row(label, CellSites[s], "X"))
    /\ UNCHANGED <<args, ret, manip, vis>>

\* the caller appends, as the last row of a table of two atoms, an atom
\* outside the cell
AddFarAtom ==
    /\ args = NoCall
    /\ NRows(atoms_df) = 2
    /\ \A r \in DOMAIN atoms_df : ~IsFar(atoms_df[r])
    /\ atoms_df' =
          AppendRow(atoms_df,
                    Row(atoms_df[NRows(atoms_df) - 1].index + 1, FarSite, "X"))
    /\ UNCHANGED <<args, ret, manip, vis>>

\* the results common_neighbour_analysis(df, upper_bound, max_neighbours,
\* repeat_meta) can return
CnaResults(df, ub, mn, repeat_meta) ==
    LET lattice_df == CnaLattice(df, repeat_meta)
    IN  {CnaOf(df, lattice_df, knn) :
            knn \in Query(lattice_df, lattice_df, mn + 1, Sq(ub))}

\* cna_categories(atoms_df, accuracy, upper_bound, max_neighbours, repeat_meta)
cna_categories ==
    /\ args = NoCall
    /\ NRows(atoms_df) > 0
    /\ \E ub \in LatticeUpperBounds, mn \in LatticeMaxNeighbours,
          meta \in MetaArgs :
          \E df \in CnaResults(atoms_df, ub, mn, meta) :
             \E num \in Accuracies :
                /\ args' = [fn |-> "cna_categories", accuracy |-> num,
                            upper_bound |-> ub, max_neighbours |-> mn,
                            repeat_meta |-> meta]
                /\ ret' = IF df.status # "ok" THEN [status |-> df.status]
                          ELSE [status |-> "ok", counters |-> df.cna,
                                cna |-> Categories(df.cna, num)]
    /\ UNCHANGED <<atoms_df, manip, vis>>

\* points the coordination is asked for: the sites of the cell, a point
\* within 0.01 of the first site and the centre of the cell
ProbeSites ==
    {CellSites[s] : s \in DOMAIN CellSites}
        \cup {<<1, 0, 0>>, <<HalfCell, HalfCell, HalfCell>>}

MaxCoordArgs == {1, 4, 16}

MinDistArgs == {SelfDist, HalfCell + 1}

\* lines 195-198: the lattice the subject atoms are counted against
CoordLattice(lattice_atoms_df, repeat_meta) ==
    IF repeat_meta # NoMeta
    THEN repeat_cell(lattice_atoms_df, repeat_meta,
                     << <<-1, 1>>, <<-1, 1>>, <<-1, 1>> >>)
    ELSE lattice_atoms_df

\* the dists of tree.query(q, k, distance_upper_bound) for one query
\* point: the k smallest distances below the bound, as the number of
\* entries at each distance, and the number of (inf, n) padding entries
QueryDists(pts, q, k, ub2) ==
    LET cand == InRange(pts, q, ub2)
        d(i) == Dist2(pts[i], q)
    IN  [found |-> [c \in {d(i) : i \in cand} |->
                       Min2(Cardinality({i \in cand : d(i) = c}),
                            Max({0, k - Cardinality({i \in cand : d(i) < c})}))],
         inf   |-> Max({0, k - Cardinality(cand)})]

\* the count with the test dists < inf left out: the padding is counted too
CountValidNoInf(dists, min_dist) ==
    SumOver(dists.found, {c \in DOMAIN dists.found : c > Sq(min_dist)})
        + dists.inf

\* line 205 for one row of dists: the entries above min_dist and below inf
CountValid(dists, min_dist) ==
    SumOver(dists.found, {c \in DOMAIN dists.found : c > Sq(min_dist)})

\* coordination(coord_atoms_df, lattice_atoms_df, max_dist, max_coord,
\*              repeat_meta, min_dist), the state's table being the lattice
coordination ==
    /\ args = NoCall
    /\ NRows(atoms_df) > 0
    /\ \E coord_atoms_df \in
             {atoms_df} \cup {(0 :> Row(0, site, "X")) : site \in ProbeSites},
          max_dist \in LatticeUpperBounds, max_coord \in MaxCoordArgs,
          meta \in MetaArgs, min_dist \in MinDistArgs :
          LET lattice_df == CoordLattice(atoms_df, meta)
          IN  /\ args' = [fn |-> "coordination",
                          coord_atoms_df |-> coord_atoms_df,
                          max_dist |-> max_dist, max_coord |-> max_coord,
                          repeat_meta |-> meta, min_dist |-> min_dist]
              /\ ret' = [status |-> "ok",
                         coords |->
                            [r \in DOMAIN coord_atoms_df |->
                                CountValid(QueryDists(lattice_df,
                                               coord_atoms_df[r], max_coord,
                                               Sq(max_dist)),
                                           min_dist)]]
    /\ UNCHANGED <<atoms_df, manip, vis>>

NextLattice ==
    \/ AddCellAtom
    \/ AddFarAtom
    \/ cna_categories
    \/ coordination

SpecLattice == Init /\ [][NextLattice]_vars

(***************************************************************************)
(* Atom_Manipulation.repeat_cell called on its own; atoms_df is the table  *)
(* the Atom_Manipulation holds (_atom_df).                                 *)
(***************************************************************************)
\* lattice vectors that are not along the axes
SkewVectors == << <<2 * HalfCell, 0, 0>>, <<1, 2 * HalfCell, 0>>, <<0, 1, 3>> >>

VectorArgs == {CubicMeta, SkewVectors}

\* the (lo, hi) a caller passes for one axis; range(1, 0 + 1) is empty
RangeArgs == {<<0, 0>>, <<0, 1>>, <<-1, 0>>, <<-1, 1>>, <<1, 0>>}

\* repetitions=((0,1),(0,1),(0,1))
DefaultRepetitions == << <<0, 1>>, <<0, 1>>, <<0, 1>> >>

\* the table the Atom_Manipulation is made with grows by one atom
AddRepeatAtom ==
    /\ NRows(atoms_df) < MaxRepeatAtoms
    /\ AddCellAtom

\* lines 130-140 as a call: pd.concat raises ValueError for an empty list
\* of copies, otherwise the table held is replaced by the repeated one
RepeatCellCall(fn, vectors, repetitions) ==
    /\ args = NoCall
    /\ NRows(atoms_df) > 0
    /\ args' = [fn |-> fn, vectors |-> vectors, repetitions |-> repetitions,
                before |-> atoms_df]
    /\ IF \E a \in 1..3 : repetitions[a][2] < repetitions[a][1]
       THEN /\ ret' = [status |-> "ValueError"]
            /\ UNCHANGED <<atoms_df, manip, vis>>
       ELSE /\ ret' = [status |-> "ok"]
            /\ atoms_df' = repeat_cell(atoms_df, vectors, repetitions)
    /\ UNCHANGED <<manip, vis>>

\* repeat_cell(vectors, repetitions)
repeat_cell_ranges ==
    \E vectors \in VectorArgs, ra \in RangeArgs, rb \in RangeArgs,
       rc \in RangeArgs :
        RepeatCellCall("repeat_cell", vectors, <<ra, rb, rc>>)

\* repeat_cell(vectors)
repeat_cell_default ==
    \E vectors \in VectorArgs :
        RepeatCellCall("repeat_cell_default", vectors, DefaultRepetitions)

NextRepeat ==
    \/ AddRepeatAtom
    \/ repeat_cell_ranges
    \/ repeat_cell_default

SpecRepeat == Init /\ [][NextRepeat]_vars

(***************************************************************************)
(* guess_bonds.                                                            *)
(***************************************************************************)
\* the pairs in both orders
QueryPairsBothOrders(r_array, max_length) ==
    {p \in (DOMAIN r_array) \X (DOMAIN r_array) :
        /\ p[1] # p[2]
        /\ Dist2(r_array[p[1]], r_array[p[2]]) <= Sq(max_length)}

\* ck.query_pairs(max_length): the pairs i < j of rows no farther apart
\* than max_length
query_pairs(r_array, max_length) ==
    {p \in (DOMAIN r_array) \X (DOMAIN r_array) :
        /\ p[1] < p[2]
        /\ Dist2(r_array[p[1]], r_array[p[2]]) <= Sq(max_length)}

\* color=None
NoColor == "None"

\* the test with the lower threshold thr_a applied as well
BondedWithin(dr2, rval, threshold) ==
    /\ dr2 < Sq(rval + threshold)
    /\ rval - threshold <= 0 \/ dr2 >= Sq(rval - threshold)

\* lines 99-110: dr2 < thr_b2 with thr_b = rval + threshold
Bonded(dr2, rval, threshold) == dr2 < Sq(rval + threshold)

\* lines 111-116: the row appended for the pair (i, j); the length is kept
\* as its square dr2
BondRow(df, i, j, radius, transparency, color) ==
    [start |-> i, end |-> j, length2 |-> Dist2(df[i], df[j]),
     radius |-> radius,
     color_start |-> IF color = NoColor THEN df[i].color ELSE color,
     color_end   |-> IF color = NoColor THEN df[j].color ELSE color,
     transparency |-> transparency]

\* the test that the index holds the labels 0..N-1, in whatever order
IndexIsRange(df) == {df[r].index : r \in DOMAIN df} = DOMAIN df

\* line 84: atoms_df.index.tolist() == [_ for _ in range(atoms_df.shape[0])]
IndexInOrder(df) == \A r \in DOMAIN df : df[r].index = r

\* the lookup made for every atom of the table
LookupFailsAnywhere(df, pairs, covalent_radii) ==
    \E r \in DOMAIN df : df[r].type \notin DOMAIN covalent_radii

\* line 98: covalent_radii[...] raises KeyError for the type of an atom of
\* one of the pairs
LookupFails(df, pairs, covalent_radii) ==
    \E p \in pairs :
        \E e \in {p[1], p[2]} : df[e].type \notin DOMAIN covalent_radii

\* guess_bonds(atoms_df, covalent_radii, threshold, max_length, radius,
\*             transparency, color); the rows of bonds_df as a set
BondsOf(df, covalent_radii, threshold, max_length, radius, transparency, color) ==
    LET pairs == query_pairs(df, max_length)
    IN  IF ~IndexInOrder(df)
        THEN [status |-> "ValueError"]
        ELSE IF LookupFails(df, pairs, covalent_radii)
        THEN [status |-> "KeyError"]
        ELSE [status |-> "ok",
              bonds |->
                 {BondRow(df, p[1], p[2], radius, transparency, color) :
                     p \in {q \in pairs :
                               Bonded(Dist2(df[q[1]], df[q[2]]),
                                      covalent_radii[df[q[1]].type]
                                          + covalent_radii[df[q[2]].type],
                                      threshold)}}]

\* the four atoms (2,3,4), (1,3,3), (4,3,1), (3,4,1) and two more on the
\* line through the first, 2.0 and 2.1 away from it
BondSites ==
    << <<200, 300, 400>>, <<100, 300, 300>>, <<400, 300, 100>>,
       <<300, 400, 100>>, <<200, 300, 600>>, <<200, 300, 610>> >>

BondSiteOf(row) ==
    CHOOSE s \in DOMAIN BondSites : BondSites[s] = <<row.x, row.y, row.z>>

BondTypes == {"X", "Y"}

TypeColor == [t \in BondTypes |-> IF t = "X" THEN "red" ELSE "blue"]

\* covalent radii of 1.0 and 1.2, the second table knowing both types
RadiiArgs == {("X" :> 100), ("X" :> 100) @@ ("Y" :> 120)}

ThresholdArgs == {0, 10}

MaxLengthArgs == {141, 200, 500}

ColorArgs == {NoColor, "green"}

\* the caller's table grows by one atom; its index labels run on from the
\* label of the first row, which is 0 or, for a table cut from a larger
\* one, 1
AddBondAtom ==
    /\ args = NoCall
    /\ NRows(atoms_df) < MaxBondAtoms
    /\ \A r \in DOMAIN atoms_df : atoms_df[r].index = atoms_df[0].index + r
    /\ \E s \in DOMAIN BondSites, t \in BondTypes, first \in {0, 1} :
          /\ \A r \in DOMAIN atoms_df : BondSiteOf(atoms_df[r]) < s
          /\ LET label == IF NRows(atoms_df) = 0 THEN first
                          ELSE atoms_df[NRows(atoms_df) - 1].index + 1
             IN  atoms_df' =
                    AppendRow(atoms_df,
                              Row(label, BondSites[s], t)
                                  @@ [color |-> TypeColor[t]])
    /\ UNCHANGED <<args, ret, manip, vis>>

guess_bonds ==
    /\ args = NoCall
    /\ \E covalent_radii \in RadiiArgs, threshold \in ThresholdArgs,
          max_length \in MaxLengthArgs, color \in ColorArgs :
          /\ args' = [fn |-> "guess_bonds", covalent_radii |-> covalent_radii,
                      threshold |-> threshold, max_length |-> max_length,
                      radius |-> 10, transparency |-> 1, color |-> color]
          /\ ret' = BondsOf(atoms_df, covalent_radii, threshold, max_length,
                            10, 1, color)
    /\ UNCHANGED <<atoms_df, manip, vis>>

\* the caller's table with its rows in reverse order, each row keeping its
\* index label
reverse_rows ==
    /\ args = NoCall
    /\ NRows(atoms_df) >= 2
    /\ atoms_df[0].index = 0 /\ atoms_df[1].index = 1
    /\ atoms_df' = [r \in DOMAIN atoms_df |-> atoms_df[NRows(atoms_df) - 1 - r]]
    /\ UNCHANGED <<args, ret, manip, vis>>

\* the table with the atoms of rows a and b in each other's place; the
\* index labels stay with the row positions
SwappedRows(df, a, b) ==
    [r \in DOMAIN df |->
        LET from == IF r = a THEN b ELSE IF r = b THEN a ELSE r
        IN  [df[from] EXCEPT !.index = df[r].index]]

\* guess_bonds run again, with the same arguments, on the table of a call
\* that returned, two of its atoms swapped
guess_bonds_swapped ==
    /\ args.fn = "guess_bonds"
    /\ ret.status = "ok"
    /\ \E a, b \in DOMAIN atoms_df :
          /\ a < b
          /\ atoms_df' = SwappedRows(atoms_df, a, b)
          /\ args' = [args EXCEPT !.fn = "guess_bonds_swapped"]
                        @@ [swap |-> <<a, b>>, before |-> ret]
          /\ ret' = BondsOf(SwappedRows(atoms_df, a, b), args.covalent_radii,
                            args.threshold, args.max_length, args.radius,
                            args.transparency, args.color)
    /\ UNCHANGED <<manip, vis>>

NextBonds ==
    \/ AddBondAtom
    \/ reverse_rows
    \/ guess_bonds
    \/ guess_bonds_swapped

SpecBonds == Init /\ [][NextBonds]_vars

(***************************************************************************)
(* vacancy_identification.                                                 *)
(***************************************************************************)
\* the number of values lo, lo+res, ... up to and including hi
GridCountInclusive(lo, hi, res) == (hi - lo) \div res + 1

\* the number of values of np.mgrid[lo:hi:res]: lo, lo+res, ... below hi
GridCount(lo, hi, res) == (hi - lo + res - 1) \div res

\* lines 308-311: np.mgrid[xmin:xmax:res, ymin:ymax:res, zmin:zmax:res]
\* .reshape(3,-1).T, the grid points as a sequence, z running fastest
GridPoints(df, res) ==
    LET xmin == Min({df[r].x : r \in DOMAIN df})
        ymin == Min({df[r].y : r \in DOMAIN df})
        zmin == Min({df[r].z : r \in DOMAIN df})
        nx == GridCount(xmin, Max({df[r].x : r \in DOMAIN df}), res)
        ny == GridCount(ymin, Max({df[r].y : r \in DOMAIN df}), res)
        nz == GridCount(zmin, Max({df[r].z : r \in DOMAIN df}), res)
    IN  [n \in 1..(nx * ny * nz) |->
            [x |-> xmin + res * ((n - 1) \div (ny * nz)),
             y |-> ymin + res * (((n - 1) \div nz) % ny),
             z |-> zmin + res * ((n - 1) % nz)]]

\* lines 313-318: the lattice the grid points are compared with
VacancyLattice(df, repeat_meta) ==
    IF repeat_meta # NoMeta THEN RepeatCellOriginalFirst(df, repeat_meta)
    ELSE df

\* lines 330-338: np.isinf(dist) for the k=1 query with
\* distance_upper_bound=nn_dist; the rows of vac_list in grid order
IsVacant(lattice_df, nn_dist, atom) ==
    InRange(lattice_df, atom, Sq(nn_dist)) = {}

VacList(xyz, lattice_df, nn_dist) ==
    LET vacant(atom) == IsVacant(lattice_df, nn_dist, atom)
        kept == SelectSeq(xyz, vacant)
    IN  [r \in 0..(Len(kept) - 1) |->
            kept[r + 1] @@ [type |-> "Vac", index |-> r]]

\* the pairs of vacancies closer than nn_dist
VacancyPairsStrict(df, nn_dist) ==
    {p \in (DOMAIN df) \X (DOMAIN df) :
        p[1] < p[2] /\ Dist2(df[p[1]], df[p[2]]) < Sq(nn_dist)}

\* line 342: vac_tree.query_pairs(nn_dist)
VacancyPairs(df, nn_dist) == query_pairs(df, nn_dist)

\* lines 340-345: df.drop(pairs[:,0]), the rows left keeping their labels
DropFirsts(df, pairs) ==
    LET firsts == {p[1] : p \in pairs}
        stays(row) == row.index \notin firsts
        left == SelectSeq([n \in 1..NRows(df) |-> df[n - 1]], stays)
    IN  [r \in 0..(Len(left) - 1) |-> left[r + 1]]

\* vacancy_identification(atoms_df, res, nn_dist, repeat_meta, remove_dups)
VacanciesOf(df, res, nn_dist, repeat_meta, remove_dups) ==
    LET vac_df == VacList(GridPoints(df, res),
                          VacancyLattice(df, repeat_meta), nn_dist)
    IN  IF remove_dups /\ NRows(vac_df) > 0
        THEN DropFirsts(vac_df, VacancyPairs(vac_df, nn_dist))
        ELSE vac_df

\* positions of the atoms of a defective cell
VacancySites ==
    << <<0, 0, 0>>, <<2 * HalfCell, 0, 0>>, <<0, 2 * HalfCell, 0>>,
       <<HalfCell + 1, HalfCell + 1, 2 * HalfCell>>,
       <<2 * HalfCell, 2 * HalfCell, 2 * HalfCell>> >>

VacancySiteOf(row) ==
    CHOOSE s \in DOMAIN VacancySites :
        VacancySites[s] = <<row.x, row.y, row.z>>

ResArgs == {1, 2}

NnDistArgs == {1, 2, 3}

AddVacancyAtom ==
    /\ args = NoCall
    /\ NRows(atoms_df) < MaxVacancyAtoms
    /\ \E s \in DOMAIN VacancySites :
          /\ \A r \in DOMAIN atoms_df : VacancySiteOf(atoms_df[r]) < s
          /\ atoms_df' =
                AppendRow(atoms_df, Row(NRows(atoms_df), VacancySites[s], "X"))
    /\ UNCHANGED <<args, ret, manip, vis>>

vacancy_identification ==
    /\ args = NoCall
    /\ NRows(atoms_df) > 0
    /\ \E res \in ResArgs, nn_dist \in NnDistArgs, meta \in MetaArgs,
          remove_dups \in BOOLEAN :
          /\ args' = [fn |-> "vacancy_identification", res |-> res,
                      nn_dist |-> nn_dist, repeat_meta |-> meta,
                      remove_dups |-> remove_dups]
          /\ ret' = [status |-> "ok",
                     df |-> VacanciesOf(atoms_df, res, nn_dist, meta,
                                        remove_dups)]
    /\ UNCHANGED <<atoms_df, manip, vis>>

NextVacancy ==
    \/ AddVacancyAtom
    \/ vacancy_identification

SpecVacancy == Init /\ [][NextVacancy]_vars

(***************************************************************************)
(* Atom_Manipulation (ipymd/atom_manipulation.py).  A table is an object   *)
(* and the fields of an Atom_Manipulation hold references to tables: the   *)
(* reference CallerRef names the table the caller passed in (atoms_df), a  *)
(* positive reference names a table created since (its rows are in         *)
(* manip.heap) and NoRef is None.  An optional argument is the empty set   *)
(* (None) or the set of its one value.                                     *)
(***************************************************************************)
\* largest number of rows of a table handed to Atom_Manipulation
MaxManipAtoms == 2

\* largest number of method calls made on one Atom_Manipulation
MaxManipCalls == 3

CallerRef == 0

NoRef == -1

\* the rows of the table a reference names
Deref(heap, ref) == IF ref = CallerRef THEN atoms_df ELSE heap[ref]

\* a new table object; the smallest reference not in use names it
Alloc(heap, table) ==
    LET ref == CHOOSE r \in 1..(Cardinality(DOMAIN heap) + 1) :
                   /\ r \notin DOMAIN heap
                   /\ \A q \in 1..(r - 1) : q \in DOMAIN heap
    IN  [ref |-> ref, heap |-> heap @@ (ref :> table)]

\* no copy is made: the result is the object that was to be copied
CopyShared(heap, ref) == [ref |-> ref, heap |-> heap]

\* DataFrame.copy(): a new object with the rows of the one copied
Copy(heap, ref) == Alloc(heap, Deref(heap, ref))

\* df[mask]: a new table of the rows whose mask entry is true, in their
\* order and with their index labels
FilterRows(df, mask) ==
    LET kept == SelectSeq([n \in 1..NRows(df) |-> n - 1], LAMBDA r : mask[r])
    IN  [r \in 0..(Len(kept) - 1) |-> df[kept[r + 1]]]

\* the table the object works on: the _atom_df getter, lines 34-36
Current(m) == Deref(m.heap, m.new)

\* a table no field refers to any more is gone
Collect(m) ==
    [m EXCEPT !.heap = [r \in ({m.new, m.old, m.original} \cap DOMAIN m.heap) |-> m.heap[r]]]

\* the _atom_df setter, lines 38-41, a being the object assigned
Setter(m, a) ==
    Collect([m EXCEPT !.heap = a.heap, !.old = m.new, !.new = a.ref])

\* lines 18-28: __init__(atom_df) keeps two copies of the table passed
Constructed ==
    LET new == Copy(<<>>, CallerRef)
        original == Copy(new.heap, CallerRef)
    IN  [state |-> "ready", heap |-> original.heap, new |-> new.ref,
         old |-> NoRef, original |-> original.ref, calls |-> 0]

\* line 54: DataFrame.replace({'type': map_dict})
Replaced(df, map_dict) ==
    [r \in DOMAIN df |->
        IF df[r].type \in DOMAIN map_dict
        THEN [df[r] EXCEPT !.type = map_dict[df[r].type]]
        ELSE df[r]]

\* line 63: self._atom_df = self._atom_df[self._atom_df[vtype].isin(values)]
Filtered(m, values) ==
    Setter(m, Alloc(m.heap, FilterRows(Current(m), [r \in DOMAIN Current(m) |-> Current(m)[r].type \in values])))

\* lines 143-144: the rows whose coordinate is at least minval, if given
SlicedMin(m, axis, minval) ==
    IF minval # {}
    THEN Setter(m, Alloc(m.heap, FilterRows(Current(m), [r \in DOMAIN Current(m) |-> \A v \in minval : Current(m)[r][axis] >= v])))
    ELSE m

\* lines 145-146: the rows whose coordinate is at most maxval, if given
SlicedMax(m, axis, maxval) ==
    IF maxval # {}
    THEN Setter(m, Alloc(m.heap, FilterRows(Current(m), [r \in DOMAIN Current(m) |-> \A v \in maxval : Current(m)[r][axis] <= v])))
    ELSE m

\* lines 142-158: slice_x, slice_y, slice_z on the column axis
Sliced(m, axis, minval, maxval) == SlicedMax(SlicedMin(m, axis, minval), axis, maxval)

\* lines 43-46: undo_last
Undone(m) ==
    IF m.old # NoRef THEN Collect([m EXCEPT !.new = m.old, !.old = NoRef]) ELSE m

\* lines 49-51: revert_to_original
Reverted(m) == Setter(m, Copy(m.heap, m.original))

\* positions of the atoms of the tables handed to Atom_Manipulation
ManipSites == << <<0, 0, 0>>, <<1, 1, 0>>, <<1, 0, 1>> >>

ManipSiteOf(row) ==
    CHOOSE s \in DOMAIN ManipSites : ManipSites[s] = <<row.x, row.y, row.z>>

ManipTypes == {"X", "Y"}

\* the map_dict of change_variables
TypeMaps == {("X" :> "Y"), ("Y" :> "X")}

\* minval and maxval of a slice
SliceArgs == {{}, {1}}

\* the repetitions of repeat_cell; range(1, 0 + 1) is empty
ManipRepetitions ==
    {<< <<0, 1>>, <<0, 0>>, <<0, 0>> >>, << <<1, 0>>, <<0, 0>>, <<0, 0>> >>}

\* the caller appends a row to the table it is going to pass
AddManipAtom ==
    /\ args = NoCall
    /\ manip = NoManip
    /\ NRows(atoms_df) < MaxManipAtoms
    /\ \E s \in DOMAIN ManipSites, t \in ManipTypes :
          /\ \A r \in DOMAIN atoms_df : ManipSiteOf(atoms_df[r]) < s
          /\ atoms_df' = AppendRow(atoms_df, Row(NRows(atoms_df), ManipSites[s], t))
    /\ UNCHANGED <<args, ret, manip, vis>>

\* Atom_Manipulation(atoms_df)
Atom_Manipulation ==
    /\ args = NoCall
    /\ manip = NoManip
    /\ NRows(atoms_df) > 0
    /\ manip' = Constructed
    /\ args' = [fn |-> "Atom_Manipulation", before |-> atoms_df]
    /\ ret' = [status |-> "ok"]
    /\ UNCHANGED <<atoms_df, vis>>

ManipReady == manip # NoManip /\ manip.calls < MaxManipCalls

\* the call made before this one
Previous == [fn |-> args.fn, before |-> args.before, status |-> ret.status]

\* a method call that leaves the object as m and assigns to no table
MethodCall(call, m, status) ==
    /\ args' = call @@ [before |-> Current(manip), prev |-> Previous]
    /\ manip' = [m EXCEPT !.calls = @ + 1]
    /\ ret' = [status |-> status]
    /\ UNCHANGED <<atoms_df, vis>>

\* change_variables(map_dict): the replacement is made inplace, in the
\* object that the field _atom_df_new refers to
change_variables ==
    /\ ManipReady
    /\ \E map_dict \in TypeMaps :
          LET after == Replaced(Current(manip), map_dict)
          IN  /\ args' = [fn |-> "change_variables", map_dict |-> map_dict,
                          before |-> Current(manip), prev |-> Previous]
              /\ ret' = [status |-> "ok"]
              /\ IF manip.new = CallerRef
                 THEN /\ atoms_df' = after
                      /\ manip' = [manip EXCEPT !.calls = @ + 1]
                 ELSE /\ manip' = [manip EXCEPT !.heap[manip.new] = after,
                                                !.calls = @ + 1]
                      /\ UNCHANGED atoms_df
    /\ UNCHANGED vis

\* filter_variables(values)
filter_variables ==
    /\ ManipReady
    /\ \E values \in ManipTypes :
          MethodCall([fn |-> "filter_variables", values |-> values], Filtered(manip, {values}), "ok")

\* repeat_cell(vectors, repetitions): pd.concat raises ValueError for an
\* empty list of copies, before anything is assigned
manip_repeat_cell ==
    /\ ManipReady
    /\ NRows(Current(manip)) <= MaxManipAtoms
    /\ \E repetitions \in ManipRepetitions :
          IF \E a \in 1..3 : repetitions[a][2] < repetitions[a][1]
          THEN MethodCall([fn |-> "repeat_cell", repetitions |-> repetitions], manip, "ValueError")
          ELSE MethodCall([fn |-> "repeat_cell", repetitions |-> repetitions],
                          Setter(manip, Alloc(manip.heap, repeat_cell(Current(manip), CubicMeta, repetitions))), "ok")

slice_x ==
    /\ ManipReady
    /\ \E minval \in SliceArgs, maxval \in SliceArgs :
          MethodCall([fn |-> "slice_x", minval |-> minval, maxval |-> maxval], Sliced(manip, "x", minval, maxval), "ok")

slice_y ==
    /\ ManipReady
    /\ \E minval \in SliceArgs, maxval \in SliceArgs :
          MethodCall([fn |-> "slice_y", minval |-> minval, maxval |-> maxval], Sliced(manip, "y", minval, maxval), "ok")

slice_z ==
    /\ ManipReady
    /\ \E minval \in SliceArgs, maxval \in SliceArgs :
          MethodCall([fn |-> "slice_z", minval |-> minval, maxval |-> maxval], Sliced(manip, "z", minval, maxval), "ok")

undo_last ==
    /\ ManipReady
    /\ MethodCall([fn |-> "undo_last"], Undone(manip), "ok")

revert_to_original ==
    /\ ManipReady
    /\ MethodCall([fn |-> "revert_to_original"], Reverted(manip), "ok")

\* a table with one more column, values holding its entry for each row
WithColumn(df, name, values) ==
    [r \in DOMAIN df |-> df[r] @@ (name :> values[r])]

\* coordination_bytype(atoms_df, coord_type, lattice_type, max_dist,
\* max_coord): lines 238-256.  The new column is written to df, the copy
\* of line 238; an entry is NaN (the empty set) or a number.  The two
\* Atom_Manipulation objects are local to the call.
coordination_bytype ==
    /\ args = NoCall
    /\ manip = NoManip
    /\ NRows(atoms_df) > 0
    /\ \E coord_type \in ManipTypes, lattice_type \in ManipTypes,
          max_dist \in UpperBounds, max_coord \in MaxCoordArgs :
          LET df == Copy(<<>>, CallerRef)
              rows == Deref(df.heap, df.ref)
              present(t) == \E r \in DOMAIN rows : rows[r].type = t
              blank == WithColumn(rows, "coord", [r \in DOMAIN rows |-> {}])
              lattice_df == FilterRows(blank, [r \in DOMAIN rows |-> rows[r].type = lattice_type])
              coords == [r \in DOMAIN rows |->
                            IF rows[r].type = coord_type
                            THEN {CountValid(QueryDists(lattice_df, rows[r], max_coord, Sq(max_dist)), SelfDist)}
                            ELSE {}]
              result == IF present(coord_type) /\ present(lattice_type)
                        THEN WithColumn(rows, "coord", coords)
                        ELSE blank
          IN  /\ args' = [fn |-> "coordination_bytype", coord_type |-> coord_type,
                          lattice_type |-> lattice_type, max_dist |-> max_dist,
                          max_coord |-> max_coord, before |-> atoms_df]
              /\ ret' = [status |-> "ok", df |-> result]
              /\ atoms_df' = IF df.ref = CallerRef THEN result ELSE atoms_df
    /\ UNCHANGED <<manip, vis>>

\* common_neighbour_analysis(atoms_df, upper_bound, max_neighbours) with
\* the tables as objects: the cna column is written to df, the copy of
\* line 388, at line 445
cna_of_copy ==
    /\ args = NoCall
    /\ manip = NoManip
    /\ NRows(atoms_df) > 0
    /\ \E ub \in UpperBounds, mn \in 1..MaxManipAtoms :
          LET df == Copy(<<>>, CallerRef)
              rows == Deref(df.heap, df.ref)
          IN  \E knn \in Query(rows, rows, mn + 1, Sq(ub)) :
                 LET r == CnaOf(rows, rows, knn)
                     result == WithColumn(rows, "cna", r.cna)
                 IN  /\ args' = [fn |-> "cna_of_copy", upper_bound |-> ub,
                                 max_neighbours |-> mn, before |-> atoms_df]
                     /\ IF r.status = "ok"
                        THEN /\ ret' = [status |-> "ok", df |-> result]
                             /\ atoms_df' = IF df.ref = CallerRef THEN result ELSE atoms_df
                        ELSE /\ ret' = [status |-> r.status]
                             /\ UNCHANGED atoms_df
    /\ UNCHANGED <<manip, vis>>

NextManip ==
    \/ AddManipAtom
    \/ Atom_Manipulation
    \/ change_variables
    \/ filter_variables
    \/ manip_repeat_cell
    \/ slice_x
    \/ slice_y
    \/ slice_z
    \/ undo_last
    \/ revert_to_original
    \/ coordination_bytype
    \/ cna_of_copy

SpecManip == Init /\ [][NextManip]_vars

(***************************************************************************)
(* Visualise_Sim (ipymd/visualise/visualise_sim.py): the lists of the      *)
(* sets of objects to render and the axes setting.  A transparency is      *)
(* num/AlphaDen or NaN; of a table only its columns' names, its            *)
(* transparency column and whether its colours are known are kept.         *)
(***************************************************************************)
\* denominator of the transparencies
AlphaDen == 2

\* largest number of sets of objects a Visualise_Sim holds
MaxSets == 2

\* numpy.nan, a value no number is equal to
NaN == -1

\* a > b, a < b, a <= b for floats: a comparison with NaN is false
Gt(a, b) == a # NaN /\ b # NaN /\ a > b

Lt(a, b) == a # NaN /\ b # NaN /\ a < b

Le(a, b) == a # NaN /\ b # NaN /\ a <= b

\* Python's max(alphas)[n first entries]: the first entry, replaced by each
\* later one that compares greater
RECURSIVE PyMax(_, _)
PyMax(alphas, n) ==
    IF n = 1 THEN alphas[1]
    ELSE IF Gt(alphas[n], PyMax(alphas, n - 1)) THEN alphas[n]
    ELSE PyMax(alphas, n - 1)

\* Python's min(alphas)
RECURSIVE PyMin(_, _)
PyMin(alphas, n) ==
    IF n = 1 THEN alphas[1]
    ELSE IF Lt(alphas[n], PyMin(alphas, n - 1)) THEN alphas[n]
    ELSE PyMin(alphas, n - 1)

\* line 104: max(alphas) <= 1. and min(alphas) > 0.
AlphasOk(alphas) ==
    /\ Le(PyMax(alphas, Len(alphas)), AlphaDen)
    /\ Gt(PyMin(alphas, Len(alphas)), 0)

\* line 83: the columns add_atoms asks for
AtomColumns == {"x", "y", "z", "radius", "color", "transparency"}

\* lines 131-132: the columns add_bonds asks for besides the colours
BondColumns == {"start", "end", "radius", "transparency"}

\* lines 72-104: how add_atoms ends for a table
AddAtomsStatus(atoms_df_arg) ==
    IF ~(AtomColumns \subseteq atoms_df_arg.columns) THEN "AssertionError"
    ELSE IF ~atoms_df_arg.colors_found THEN "ValueError"
    ELSE IF atoms_df_arg.transparency = <<>> THEN "ValueError"
    ELSE IF ~AlphasOk(atoms_df_arg.transparency) THEN "AssertionError"
    ELSE "ok"

\* lines 130-167: how add_bonds ends for an atom table and a bond table
AddBondsStatus(atoms_df_arg, bonds_df) ==
    IF ~(AtomColumns \subseteq atoms_df_arg.columns) THEN "AssertionError"
    ELSE IF ~(BondColumns \subseteq bonds_df.columns) THEN "AssertionError"
    ELSE IF ~({"color"} \subseteq bonds_df.columns \/ {"color_start", "color_end"} \subseteq bonds_df.columns)
    THEN "AssertionError"
    ELSE IF ~bonds_df.colors_found THEN "ValueError"
    ELSE IF bonds_df.transparency = <<>> THEN "ValueError"
    ELSE IF ~AlphasOk(bonds_df.transparency) THEN "AssertionError"
    ELSE "ok"

\* lst[:stop] for a Python list
PySliceTo(lst, stop) ==
    SubSeq(lst, 1, IF stop < 0 THEN Max({0, Len(lst) + stop}) ELSE Min2(stop, Len(lst)))

\* lines 110-111: assert len(lst) >= n, then lst[:-n]
Removed(lst, n) ==
    IF Len(lst) >= n
    THEN [status |-> "ok", lst |-> PySliceTo(lst, 0 - n)]
    ELSE [status |-> "AssertionError", lst |-> lst]

\* the transparencies used
AlphaValues == {0, AlphaDen, AlphaDen + 1, NaN}

\* the transparency columns of the tables: up to two rows
AlphaColumns ==
    {<<>>} \cup {<<a>> : a \in AlphaValues} \cup {<<a, b>> : a \in AlphaValues, b \in AlphaValues}

\* the atom tables handed to add_atoms: complete ones, one whose colours
\* are not known, and ones lacking a column
AtomTables ==
    {[columns |-> AtomColumns, transparency |-> a, colors_found |-> TRUE] : a \in AlphaColumns}
    \cup {[columns |-> AtomColumns, transparency |-> <<AlphaDen>>, colors_found |-> FALSE]}
    \cup {[columns |-> AtomColumns \ {c}, transparency |-> <<AlphaDen>>, colors_found |-> TRUE] : c \in AtomColumns}

\* the atom tables handed to add_bonds and basic_vis
FewAtomTables ==
    {t \in AtomTables : t.transparency \in {<<AlphaDen>>, <<0>>} /\ t.columns \in {AtomColumns, AtomColumns \ {"x"}}}

\* the bond tables handed to add_bonds
BondTables ==
    {[columns |-> BondColumns \cup {"color"}, transparency |-> a, colors_found |-> TRUE] : a \in AlphaColumns}
    \cup {[columns |-> BondColumns \cup {"color_start", "color_end"}, transparency |-> <<AlphaDen>>, colors_found |-> f] : f \in BOOLEAN}
    \cup {[columns |-> (BondColumns \cup {"color"}) \ {c}, transparency |-> <<AlphaDen>>, colors_found |-> TRUE] : c \in BondColumns \cup {"color"}}
    \cup {[columns |-> BondColumns \cup {"color_start"}, transparency |-> <<AlphaDen>>, colors_found |-> TRUE]}

\* colours of boxes, hexagons and planes
ColourArgs == {"black", "red"}

\* the n of a remove call on a list: from -1 to one more than it holds
RemoveArgs(lst) == (0 - 1)..(Len(lst) + 1)

\* number of sets held
SetsHeld(v) ==
    Len(v.atoms) + Len(v.bonds) + Len(v.boxes) + Len(v.hexagons) + Len(v.triangles)

\* a call on the Visualise_Sim that ends with status and leaves it as v
VisCall(call, v, status) ==
    /\ args' = call @@ [before |-> vis]
    /\ vis' = v
    /\ ret' = [status |-> status]
    /\ UNCHANGED <<atoms_df, manip>>

\* lines 72-106: the object with the set of atoms appended
AtomsAdded(v, atoms_df_arg) ==
    [v EXCEPT !.atoms = Append(@, [alphas |-> atoms_df_arg.transparency])]

\* lines 176-196: the object with a box appended
BoxAdded(v, color) == [v EXCEPT !.boxes = Append(@, [color |-> color])]

\* lines 231-244: the object with the axes set
AxesAdded(v, length) == [v EXCEPT !.axes = [length |-> length]]

\* add_atoms(atoms_df)
add_atoms ==
    /\ SetsHeld(vis) < MaxSets
    /\ \E atoms_df_arg \in AtomTables :
          LET status == AddAtomsStatus(atoms_df_arg)
          IN  VisCall([fn |-> "add_atoms", atoms_df |-> atoms_df_arg],
                      IF status = "ok" THEN AtomsAdded(vis, atoms_df_arg) ELSE vis,
                      status)

\* add_bonds(atoms_df, bonds_df)
add_bonds ==
    /\ SetsHeld(vis) < MaxSets
    /\ \E atoms_df_arg \in FewAtomTables, bonds_df \in BondTables :
          LET status == AddBondsStatus(atoms_df_arg, bonds_df)
          IN  VisCall([fn |-> "add_bonds", atoms_df |-> atoms_df_arg, bonds_df |-> bonds_df],
                      IF status = "ok"
                      THEN [vis EXCEPT !.bonds = Append(@, [alphas |-> bonds_df.transparency])]
                      ELSE vis,
                      status)

\* add_box(a, b, c, origin, color)
add_box ==
    /\ SetsHeld(vis) < MaxSets
    /\ \E color \in ColourArgs :
          VisCall([fn |-> "add_box", color |-> color], BoxAdded(vis, color), "ok")

\* add_hexagon(vectors, origin, color)
add_hexagon ==
    /\ SetsHeld(vis) < MaxSets
    /\ \E color \in ColourArgs :
          VisCall([fn |-> "add_hexagon", color |-> color],
                  [vis EXCEPT !.hexagons = Append(@, [color |-> color])], "ok")

\* add_axes(axes, length)
add_axes ==
    \E length \in {1, 2} :
        VisCall([fn |-> "add_axes", length |-> length], AxesAdded(vis, length), "ok")

\* add_plane(vectors, origin, rev_normal, color, alpha)
add_plane ==
    /\ SetsHeld(vis) < MaxSets
    /\ \E color \in ColourArgs, alpha \in AlphaValues :
          IF Le(alpha, AlphaDen) /\ Gt(alpha, 0)
          THEN VisCall([fn |-> "add_plane", color |-> color, alpha |-> alpha],
                       [vis EXCEPT !.triangles = Append(@, [color |-> color, alpha |-> alpha])], "ok")
          ELSE VisCall([fn |-> "add_plane", color |-> color, alpha |-> alpha], vis, "AssertionError")

\* remove_atoms(n)
remove_atoms ==
    \E n \in RemoveArgs(vis.atoms) :
        VisCall([fn |-> "remove_atoms", n |-> n, lst |-> "atoms"],
                [vis EXCEPT !.atoms = Removed(@, n).lst], Removed(vis.atoms, n).status)

\* remove_bonds(n)
remove_bonds ==
    \E n \in RemoveArgs(vis.bonds) :
        VisCall([fn |-> "remove_bonds", n |-> n, lst |-> "bonds"],
                [vis EXCEPT !.bonds = Removed(@, n).lst], Removed(vis.bonds, n).status)

\* remove_boxes(n)
remove_boxes ==
    \E n \in RemoveArgs(vis.boxes) :
        VisCall([fn |-> "remove_boxes", n |-> n, lst |-> "boxes"],
                [vis EXCEPT !.boxes = Removed(@, n).lst], Removed(vis.boxes, n).status)

\* remove_hexagons(n)
remove_hexagons ==
    \E n \in RemoveArgs(vis.hexagons) :
        VisCall([fn |-> "remove_hexagons", n |-> n, lst |-> "hexagons"],
                [vis EXCEPT !.hexagons = Removed(@, n).lst], Removed(vis.hexagons, n).status)

\* remove_planes(n)
remove_planes ==
    \E n \in RemoveArgs(vis.triangles) :
        VisCall([fn |-> "remove_planes", n |-> n, lst |-> "triangles"],
                [vis EXCEPT !.triangles = Removed(@, n).lst], Removed(vis.triangles, n).status)

\* _renderer_opengl raises 'nothing available to render' unless a list
\* holds a set; get_image changes no list
Renderable(v) == SetsHeld(v) > 0

\* basic_vis(atoms_df, meta, axes): lines 655-679.  An error leaves the
\* object as it is when the error is raised.
BasicVis(v, atoms_opt, meta_given, axes_given) ==
    LET failed == \E t \in atoms_opt : AddAtomsStatus(t) # "ok"
        v1 == IF atoms_opt = {} THEN v ELSE AtomsAdded(v, CHOOSE t \in atoms_opt : TRUE)
        v2 == IF meta_given THEN BoxAdded(v1, "black") ELSE v1
        v3 == IF axes_given THEN AxesAdded(v2, 1) ELSE v2
        v4 == [v3 EXCEPT !.atoms = SubSeq(@, 1, Len(@) - 1)]
        v5 == IF meta_given THEN [v4 EXCEPT !.boxes = SubSeq(@, 1, Len(@) - 1)] ELSE v4
    IN  IF failed
        THEN [status |-> AddAtomsStatus(CHOOSE t \in atoms_opt : TRUE), vis |-> v]
        ELSE IF ~Renderable(v3) THEN [status |-> "Exception", vis |-> v3]
        ELSE IF v3.atoms = <<>> THEN [status |-> "IndexError", vis |-> v3]
        ELSE [status |-> "ok", vis |-> v5]

basic_vis ==
    /\ SetsHeld(vis) < MaxSets
    /\ \E atoms_opt \in {{}} \cup {{t} : t \in FewAtomTables},
          meta_given \in BOOLEAN, axes_given \in BOOLEAN :
          LET r == BasicVis(vis, atoms_opt, meta_given, axes_given)
          IN  VisCall([fn |-> "basic_vis", atoms_df |-> atoms_opt,
                       meta |-> meta_given, axes |-> axes_given], r.vis, r.status)

NextVis ==
    \/ add_atoms
    \/ add_bonds
    \/ add_box
    \/ add_hexagon
    \/ add_axes
    \/ add_plane
    \/ remove_atoms
    \/ remove_bonds
    \/ remove_boxes
    \/ remove_hexagons
    \/ remove_planes
    \/ basic_vis

SpecVis == Init /\ [][NextVis]_vars

(***************************************************************************)
(* _longest_path with the adjacency map as an object: a call is given the  *)
(* caller's map and what it returns is kept together with the map as the   *)
(* call leaves it and with the depth the recursion reached.  The nodes of  *)
(* a list are visited in ascending order.                                  *)
(***************************************************************************)
\* largest number of nodes of an adjacency map
MaxNodes == 4

\* new_tree = tree: the callee works on the caller's map
TreeShared(tree) == [map |-> tree, own |-> FALSE]

\* line 43: new_tree = tree.copy(), a map of the callee's own
TreeCopy(tree) == [map |-> tree, own |-> TRUE]

\* lines 40-55 (LongestPathRun) and the loop of lines 48-53 (VisitNodes)
RECURSIVE LongestPathRun(_, _, _)
RECURSIVE VisitNodes(_, _, _, _, _)
LongestPathRun(start, tree, lastnode) ==
    IF start \notin DOMAIN tree THEN [len |-> 0, tree |-> tree, depth |-> 1]
    ELSE LET copy     == TreeCopy(tree)
             nodes    == copy.map[start]
             new_tree == [copy.map EXCEPT ![start] = {}]
             loop     == VisitNodes(nodes \ {lastnode}, new_tree, start, 0, 0)
         IN  [len   |-> loop.len + 1,
              tree  |-> IF copy.own THEN tree ELSE loop.tree,
              depth |-> loop.depth + 1]

VisitNodes(todo, new_tree, start, len, depth) ==
    IF todo = {} THEN [len |-> len, tree |-> new_tree, depth |-> depth]
    ELSE LET node == Min(todo)
             r    == LongestPathRun(node, new_tree, start)
         IN  VisitNodes(todo \ {node}, r.tree, start,
                        Max({len, r.len}), Max({depth, r.depth}))

\* lines 435-439: the searches from every node of the map, one after the
\* other on the same map
RECURSIVE ChainLoop(_, _, _)
ChainLoop(todo, tree, l) ==
    IF todo = {} THEN [l |-> l, tree |-> tree]
    ELSE LET node == Min(todo)
             r    == LongestPathRun(node, tree, NoNode)
         IN  ChainLoop(todo \ {node}, r.tree, Max({l, r.len - 1}))

\* the lists of edges handed to _createTreeFromEdges: sorted pairs
EdgeLists == SUBSET {e \in (0..(MaxNodes - 1)) \X (0..(MaxNodes - 1)) : e[1] < e[2]}

\* _longest_path(start, _createTreeFromEdges(edges))
longest_path_call ==
    /\ args = NoCall
    /\ \E edges \in EdgeLists, start \in 0..MaxNodes :
          /\ args' = [fn |-> "_longest_path", start |-> start,
                      tree |-> _createTreeFromEdges(edges)]
          /\ ret' = LongestPathRun(start, _createTreeFromEdges(edges), NoNode)
    /\ UNCHANGED <<atoms_df, manip, vis>>

\* lines 434-439 for the bonds edges
chain_lengths ==
    /\ args = NoCall
    /\ \E edges \in EdgeLists :
          LET tree == _createTreeFromEdges(edges)
          IN  /\ args' = [fn |-> "chain_lengths", tree |-> tree]
              /\ ret' = ChainLoop(DOMAIN tree, tree, 0)
    /\ UNCHANGED <<atoms_df, manip, vis>>

NextPath ==
    \/ longest_path_call
    \/ chain_lengths

SpecPath == Init /\ [][NextPath]_vars

(***************************************************************************)
(* Claims about common_neighbour_analysis.                                 *)
(***************************************************************************)
\* the numbers a signature of the analysed tables can hold
SigNums == 0..(MaxAtoms * MaxAtoms)

\* A's neighbour set and the neighbours A and B share, read off the result
Nbrs(r, A) == r.nn_ids[A]

Shared(r, A, B) == {c \in Nbrs(r, A) : c \in Nbrs(r, B)}

\* the unordered pairs of shared neighbours one of which lists the other
SharedBonds(r, A, B) ==
    {{c, d} : c \in Shared(r, A, B),
              d \in Shared(r, A, B)} \cap
    {e \in SUBSET Shared(r, A, B) :
        \E c \in e, d \in e : c # d /\ d \in Nbrs(r, c)}

HasJ(sig, j) == \E k \in SigNums, l \in SigNums : sig = FormatJkl(j, k, l)

HasK(sig, k) == \E j \in SigNums, l \in SigNums : sig = FormatJkl(j, k, l)

HasL(sig, l) == \E j \in SigNums, k \in SigNums : sig = FormatJkl(j, k, l)

\* C1: for every analysed atom A and every neighbour B of A, the j of the
\* recorded signature is the number of atoms that are in both A's and B's
\* neighbour set.
C1_SharedCount ==
    CnaDone =>
        \A A \in DOMAIN atoms_df : \A B \in Nbrs(ret, A) :
            HasJ(ret.jkls[A][B], Cardinality(Shared(ret, A, B)))

\* an analysed pair with a shared neighbour, where B also has a neighbour
\* that A has not and A one that B has not
C1_Witness ==
    /\ CnaDone
    /\ \E A \in DOMAIN atoms_df : \E B \in Nbrs(ret, A) :
          /\ Cardinality(Shared(ret, A, B)) >= 1
          /\ Nbrs(ret, B) \ (Nbrs(ret, A) \cup {A}) # {}
          /\ Nbrs(ret, A) \ (Nbrs(ret, B) \cup {B}) # {}

\* C2: k is the number of unordered pairs {C, D} of shared neighbours such
\* that D is in C's neighbour set, each pair counted once.
C2_BondCount ==
    CnaDone =>
        \A A \in DOMAIN atoms_df : \A B \in Nbrs(ret, A) :
            HasK(ret.jkls[A][B], Cardinality(SharedBonds(ret, A, B)))

\* a result with a bond among shared neighbours that is listed from both
\* ends and one that is listed from one end only
C2_Witness ==
    /\ CnaDone
    /\ \E A \in DOMAIN atoms_df : \E B \in Nbrs(ret, A) :
          \E c \in Shared(ret, A, B), d \in Shared(ret, A, B) :
             d \in Nbrs(ret, c) /\ c \in Nbrs(ret, d)
    /\ \E A \in DOMAIN atoms_df : \E B \in Nbrs(ret, A) :
          \E c \in Shared(ret, A, B), d \in Shared(ret, A, B) :
             d \in Nbrs(ret, c) /\ c \notin Nbrs(ret, d)

\* the bond graph of the shared neighbours of (A, B): c and d are joined
Joined(r, A, B, c, d) == {c, d} \in SharedBonds(r, A, B)

\* the walks of L steps in that graph that never step straight back
Walks(r, A, B, L) ==
    {w \in [0..L -> Shared(r, A, B)] :
        /\ \A i \in 0..(L - 1) : Joined(r, A, B, w[i], w[i + 1])
        /\ \A i \in 0..(L - 2) : w[i + 2] # w[i]}

\* ... and that end when they first come to a node they have been at
StoppingWalks(r, A, B, L) ==
    {w \in Walks(r, A, B, L) :
        \A i \in 0..(L - 1), m \in 0..(L - 1) : i # m => w[i] # w[m]}

\* C3 as stated: l is the length of the longest walk whose only restriction
\* is that no step goes straight back (0 when the graph has no edges).
C3_LongestWalk ==
    CnaDone =>
        \A A \in DOMAIN atoms_df : \A B \in Nbrs(ret, A) :
            \E l \in SigNums :
                /\ HasL(ret.jkls[A][B], l)
                /\ SharedBonds(ret, A, B) = {} => l = 0
                /\ SharedBonds(ret, A, B) # {} =>
                      /\ Walks(ret, A, B, l) # {}
                      /\ Walks(ret, A, B, l + 1) = {}

\* C3 amended: l is the length of the longest walk that never steps
\* straight back and ends when it first comes to a node it has visited
\* (0 when the graph has no edges).
C3_LongestStoppingWalk ==
    CnaDone =>
        \A A \in DOMAIN atoms_df : \A B \in Nbrs(ret, A) :
            \E l \in 0..Cardinality(Shared(ret, A, B)) :
                /\ HasL(ret.jkls[A][B], l)
                /\ SharedBonds(ret, A, B) = {} => l = 0
                /\ SharedBonds(ret, A, B) # {} =>
                      /\ StoppingWalks(ret, A, B, l) # {}
                      /\ StoppingWalks(ret, A, B, l + 1) = {}

\* a pair whose shared neighbours form a cycle, which the chain closes
C3_Witness ==
    /\ CnaDone
    /\ \E A \in DOMAIN atoms_df : \E B \in Nbrs(ret, A) :
          /\ Cardinality(Shared(ret, A, B)) = 3
          /\ Cardinality(SharedBonds(ret, A, B)) = 3
          /\ HasL(ret.jkls[A][B], 3)

RelabelDone == args.fn = "relabelled_analysis" /\ ret.status = "ok"

\* no atom has more than max_neighbours other atoms closer than upper_bound
NoCut ==
    \A r \in DOMAIN atoms_df :
        Cardinality(InRange(atoms_df, atoms_df[r], Sq(args.upper_bound)))
            <= args.max_neighbours + 1

C4_Window ==
    args.fn = "_equala" =>
        /\ ret.value <=>
              /\ args.j * args.accuracy <= args.i * AccDen
              /\ args.i * AccDen <= args.j * (2 * AccDen - args.accuracy)
        /\ args.accuracy = AccDen => (ret.value <=> args.i = args.j)

\* a count that lies exactly on the upper end of the window and matches
C4_Witness ==
    /\ args.fn = "_equala"
    /\ args.accuracy < AccDen
    /\ args.i > args.j
    /\ args.i * AccDen = args.j * (2 * AccDen - args.accuracy)
    /\ ret.value

\* the rules in the order of the claim; Matches is the claim's window
Matches(count, expected, num) ==
    /\ expected * num <= count * AccDen
    /\ count * AccDen <= expected * (2 * AccDen - num)

RuleHolds(rule, c, num) ==
    CASE rule = 1 -> Matches(Count(c, "4,2,1"), 6, num)
                       /\ Matches(Count(c, "4,2,2"), 6, num)
      [] rule = 2 -> Matches(Count(c, "4,2,1"), 12, num)
      [] rule = 3 -> Matches(Count(c, "6,6,6"), 8, num)
                       /\ Matches(Count(c, "4,4,4"), 6, num)
      [] rule = 4 -> Matches(Count(c, "5,4,3"), 12, num)
                       /\ Matches(Count(c, "6,6,3"), 4, num)
      [] rule = 5 -> Matches(Count(c, "5,5,5"), 12, num)
      [] rule = 6 -> TRUE

RuleLabels == <<"HCP", "FCC", "BCC", "Diamond", "Icosahedral", "Other">>

CategoriesDone == args.fn = "cna_categories" /\ ret.status = "ok"

\* the table holds the four atoms of the face-centred cubic cell
IsFccCell == {CellSites[s] : s \in DOMAIN CellSites}
                = {<<atoms_df[r].x, atoms_df[r].y, atoms_df[r].z>> :
                      r \in DOMAIN atoms_df}

\* the cutoff lies between the first shell (at HalfCell * sqrt 2) and the
\* second (at 2 * HalfCell)
BetweenShells(ub) == 2 * Sq(HalfCell) < Sq(ub) /\ ub < 2 * HalfCell

CoordinationDone == args.fn = "coordination" /\ ret.status = "ok"

\* the lattice points of the claim: the atoms of the table, and with
\* repeat_meta their images under every offset in {-1,0,1}^3
Images ==
    IF args.repeat_meta = NoMeta
    THEN {<<a, 0, 0, 0>> : a \in DOMAIN atoms_df}
    ELSE (DOMAIN atoms_df) \X (-1..1) \X (-1..1) \X (-1..1)

ImageDist2(im, q) ==
    LET vectors == IF args.repeat_meta = NoMeta THEN CubicMeta
                   ELSE args.repeat_meta
    IN  Dist2(Shifted(atoms_df[im[1]], vectors, im[2], im[3], im[4]), q)

\* the lattice points closer than max_dist to q, and those of them that
\* are no farther than min_dist
Within(q) == {im \in Images : ImageDist2(im, q) < Sq(args.max_dist)}

TooClose(q) == {im \in Within(q) : ImageDist2(im, q) <= Sq(args.min_dist)}

\* C8 as stated: the i-th entry is exactly the number of lattice points
\* with min_dist < d < max_dist.
C8_ExactCount ==
    CoordinationDone =>
        \A r \in DOMAIN args.coord_atoms_df :
            LET q == args.coord_atoms_df[r]
            IN  ret.coords[r] = Cardinality(Within(q) \ TooClose(q))

\* C8 amended: the i-th entry is the number of lattice points with
\* min_dist < d < max_dist among the max_coord nearest ones, which is the
\* number of all such points when at most max_coord points are closer
\* than max_dist; there is one entry per subject atom.
C8_CountAmongNearest ==
    CoordinationDone =>
        /\ DOMAIN ret.coords = DOMAIN args.coord_atoms_df
        /\ \A r \in DOMAIN args.coord_atoms_df :
              LET q == args.coord_atoms_df[r]
              IN  /\ ret.coords[r] =
                        Min2(args.max_coord, Cardinality(Within(q)))
                          - Min2(args.max_coord, Cardinality(TooClose(q)))
                  /\ Cardinality(Within(q)) <= args.max_coord =>
                        ret.coords[r] = Cardinality(Within(q) \ TooClose(q))

\* a subject atom with fewer than max_coord points in range, among them
\* images, itself and another point within min_dist
C8_Witness ==
    /\ CoordinationDone
    /\ args.repeat_meta # NoMeta
    /\ \E r \in DOMAIN args.coord_atoms_df :
          LET q == args.coord_atoms_df[r]
          IN  /\ Cardinality(Within(q)) < args.max_coord
              /\ \E im \in TooClose(q) : ImageDist2(im, q) > 0
              /\ \E im \in Within(q) : <<im[2], im[3], im[4]>> # <<0, 0, 0>>
              /\ ret.coords[r] > 0

(***************************************************************************)
(* Claims about guess_bonds.                                               *)
(***************************************************************************)
BondsDone == args.fn = "guess_bonds" /\ ret.status = "ok"

RadiusSum(i, j) ==
    args.covalent_radii[atoms_df[i].type]
        + args.covalent_radii[atoms_df[j].type]

ReportedPairs == {<<b.start, b.end>> : b \in ret.bonds}

C10_WithinThreshold ==
    BondsDone =>
        \A b \in ret.bonds :
            /\ Sq(RadiusSum(b.start, b.end) - args.threshold) <= b.length2
            /\ b.length2 <= Sq(RadiusSum(b.start, b.end) + args.threshold)

SwapDone == args.fn = "guess_bonds_swapped"

\* the row an atom of the swapped table had before the swap
Unswapped(r) ==
    IF r = args.swap[1] THEN args.swap[2]
    ELSE IF r = args.swap[2] THEN args.swap[1] ELSE r

\* the unordered pairs of a bond table with their lengths
PairLengths(bonds) == {<<{b.start, b.end}, b.length2>> : b \in bonds}

\* C11: with two atoms of the table swapped, guess_bonds reports the same
\* unordered pairs of atoms with the same lengths; every unordered pair is
\* reported at most once and never with start equal to end.
C11_Symmetric ==
    SwapDone =>
        /\ ret.status = "ok"
        /\ {<<{Unswapped(b.start), Unswapped(b.end)}, b.length2>> :
               b \in ret.bonds} = PairLengths(args.before.bonds)
        /\ \A b \in ret.bonds \cup args.before.bonds : b.start # b.end
        /\ \A b1, b2 \in ret.bonds :
              {b1.start, b1.end} = {b2.start, b2.end} => b1 = b2
        /\ \A b1, b2 \in args.before.bonds :
              {b1.start, b1.end} = {b2.start, b2.end} => b1 = b2

\* the two atoms of a reported bond swapped, other bonds being reported
C11_Witness ==
    /\ SwapDone
    /\ ret.status = "ok"
    /\ \E b \in args.before.bonds : <<b.start, b.end>> = args.swap
    /\ Cardinality(ret.bonds) > 1
    /\ atoms_df[args.swap[1]].type # atoms_df[args.swap[2]].type

\* the index of the table is not 0, 1, ..., N-1 in that order
BadIndex == \E r \in DOMAIN atoms_df : atoms_df[r].index # r

\* C12: guess_bonds called with a table whose index is not 0, 1, ..., N-1
\* in that order raises an error and returns no bond table.
C12_IndexChecked ==
    args.fn = "guess_bonds" /\ BadIndex =>
        /\ ret.status = "ValueError"
        /\ "bonds" \notin DOMAIN ret

\* a call on a table that holds the labels 0..N-1 in another order, with
\* known types and atoms in bonding distance
C12_Witness ==
    /\ args.fn = "guess_bonds"
    /\ BadIndex
    /\ {atoms_df[r].index : r \in DOMAIN atoms_df} = DOMAIN atoms_df
    /\ \A r \in DOMAIN atoms_df : atoms_df[r].type \in DOMAIN args.covalent_radii
    /\ \E i, j \in DOMAIN atoms_df :
          i # j /\ Dist2(atoms_df[i], atoms_df[j]) < Sq(2 * args.threshold + 200)
    /\ ret.status = "ValueError"

\* C13: the analysis functions that write results back to the rows of the
\* table (here cna_categories, and common_neighbour_analysis which it calls)
\* reject a table whose index is not contiguous, zero-based and in order.
C13_RejectsBadIndex ==
    args.fn = "cna_categories" /\ BadIndex => ret.status # "ok"

\* an atom of the table has a type the radii table does not hold
UnknownType(r) == atoms_df[r].type \notin DOMAIN args.covalent_radii

\* C14 as stated: guess_bonds fails with a lookup error, and returns no
\* bond table, whenever the table holds an atom whose type is missing from
\* the radii table.
C14_UnknownTypeFails ==
    args.fn = "guess_bonds" /\ (\E r \in DOMAIN atoms_df : UnknownType(r)) =>
        ret.status = "KeyError" /\ "bonds" \notin DOMAIN ret

\* C14 amended: on a table with a valid index, guess_bonds fails with a
\* lookup error, and returns no bond table, exactly when an atom whose type
\* is missing from the radii table lies within max_length of another atom.
C14_UnknownTypeInPairFails ==
    args.fn = "guess_bonds" /\ ~BadIndex =>
        /\ ret.status = "KeyError" <=>
              \E i, j \in DOMAIN atoms_df :
                 /\ i # j
                 /\ UnknownType(i)
                 /\ Dist2(atoms_df[i], atoms_df[j]) <= Sq(args.max_length)
        /\ ret.status = "KeyError" => "bonds" \notin DOMAIN ret

\* a lookup error for an atom of unknown type that is within max_length
\* of another, in a table that also holds a pair of known atoms
C14_Witness ==
    /\ args.fn = "guess_bonds"
    /\ ~BadIndex
    /\ ret.status = "KeyError"
    /\ \E i, j \in DOMAIN atoms_df :
          /\ i # j
          /\ UnknownType(i)
          /\ Dist2(atoms_df[i], atoms_df[j]) <= Sq(args.max_length)
    /\ \E i, j \in DOMAIN atoms_df :
          /\ i # j /\ ~UnknownType(i) /\ ~UnknownType(j)
          /\ Dist2(atoms_df[i], atoms_df[j]) <= Sq(args.max_length)

(***************************************************************************)
(* Claims about repeat_cell.                                               *)
(***************************************************************************)
RepeatDone ==
    args.fn \in {"repeat_cell", "repeat_cell_default"} /\ ret.status = "ok"

\* the number of integers in the inclusive range (lo, hi)
RangeSize(range) == range[2] - range[1] + 1

\* the rows of the repeated table that are the atom of row r of the table
\* before, moved by i*a + j*b + k*c
CopiesOf(r, i, j, k) ==
    LET v == args.vectors
        o == args.before[r]
    IN  {p \in DOMAIN atoms_df :
            /\ atoms_df[p].x = o.x + i * v[1][1] + j * v[2][1] + k * v[3][1]
            /\ atoms_df[p].y = o.y + i * v[1][2] + j * v[2][2] + k * v[3][2]
            /\ atoms_df[p].z = o.z + i * v[1][3] + j * v[2][3] + k * v[3][3]
            /\ atoms_df[p].type = o.type}

\* C15: repeat_cell with an inclusive range per axis yields one copy of the
\* atoms for every offset (i, j, k) in the three ranges, shifted by
\* i*a + j*b + k*c, so the number of rows is the product of the range sizes
\* times the number of atoms: 27 times for (-1, 1) on every axis.
C15_OneCopyPerOffset ==
    RepeatDone =>
        LET reps == args.repetitions
        IN  /\ \A r \in DOMAIN args.before :
                  \A i \in reps[1][1]..reps[1][2], j \in reps[2][1]..reps[2][2],
                     k \in reps[3][1]..reps[3][2] :
                      Cardinality(CopiesOf(r, i, j, k)) = 1
            /\ NRows(atoms_df) =
                  RangeSize(reps[1]) * RangeSize(reps[2]) * RangeSize(reps[3])
                      * NRows(args.before)
            /\ reps = << <<-1, 1>>, <<-1, 1>>, <<-1, 1>> >> =>
                  NRows(atoms_df) = 27 * NRows(args.before)

\* two atoms repeated over (-1, 1) on every axis along skew vectors
C15_Witness ==
    /\ RepeatDone
    /\ args.repetitions = << <<-1, 1>>, <<-1, 1>>, <<-1, 1>> >>
    /\ args.vectors = SkewVectors
    /\ NRows(args.before) = 2
    /\ NRows(atoms_df) = 54

\* C16: repeat_cell called without a range uses one negative and one
\* positive step per axis and yields 27 copies, the original among them.
C16_DefaultIs27 ==
    args.fn = "repeat_cell_default" =>
        /\ ret.status = "ok"
        /\ args.repetitions = << <<-1, 1>>, <<-1, 1>>, <<-1, 1>> >>
        /\ NRows(atoms_df) = 27 * NRows(args.before)
        /\ \A r \in DOMAIN args.before : CopiesOf(r, 0, 0, 0) # {}

C18_BackReference ==
    RepeatDone =>
        LET reps == args.repetitions
        IN  \A p \in DOMAIN atoms_df :
               \E r \in DOMAIN args.before :
                  /\ atoms_df[p].index = args.before[r].index
                  /\ \E i \in reps[1][1]..reps[1][2],
                        j \in reps[2][1]..reps[2][2],
                        k \in reps[3][1]..reps[3][2] :
                         p \in CopiesOf(r, i, j, k)

\* several copies of a table of several atoms whose labels are not the row
\* positions
C18_Witness ==
    /\ RepeatDone
    /\ NRows(args.before) > 1
    /\ args.before[0].index = 1
    /\ NRows(atoms_df) > 2 * NRows(args.before)
    /\ \E p \in DOMAIN atoms_df : atoms_df[p].index # p
    /\ atoms_df[NRows(atoms_df) - 1].index = NRows(args.before)

(***************************************************************************)
(* Claims about vacancy_identification.                                    *)
(***************************************************************************)
VacanciesDone == args.fn = "vacancy_identification" /\ ret.status = "ok"

Coordinates(axis) ==
    {IF axis = 1 THEN atoms_df[r].x ELSE IF axis = 2 THEN atoms_df[r].y
     ELSE atoms_df[r].z : r \in DOMAIN atoms_df}

\* the values of the grid along an axis: from the least coordinate of the
\* atoms in steps of res, up to the greatest, which is included or not
AxisValues(axis, inclusive) ==
    LET lo == Min(Coordinates(axis))
        hi == Max(Coordinates(axis))
    IN  {v \in lo..hi : /\ (v - lo) % args.res = 0
                        /\ inclusive \/ v < hi}

GridOfClaim(inclusive) ==
    {[x |-> p[1], y |-> p[2], z |-> p[3]] :
        p \in AxisValues(1, inclusive) \X AxisValues(2, inclusive)
                \X AxisValues(3, inclusive)}

\* the squared distances from a point to the atoms and, with repeat_meta,
\* to their images under the offsets in {-1,0,1}^3
AtomDists2(g) == {ImageDist2(im, g) : im \in Images}

Returned == {[x |-> ret.df[r].x, y |-> ret.df[r].y, z |-> ret.df[r].z] :
                r \in DOMAIN ret.df}

\* C19 as stated: with remove_dups=False the points returned are exactly
\* the points of the grid spanning the bounding box that have no atom
\* (or image) within nn_dist.
C19_VacantGridPoints ==
    VacanciesDone /\ ~args.remove_dups =>
        Returned = {g \in GridOfClaim(TRUE) :
                       \A d2 \in AtomDists2(g) : d2 > Sq(args.nn_dist)}

\* C19 amended: with remove_dups=False the points returned are exactly,
\* once each, the points min + n*res that lie below the greatest
\* coordinate on every axis and have no atom (or image) closer than
\* nn_dist.
C19_VacantHalfOpenGridPoints ==
    VacanciesDone /\ ~args.remove_dups =>
        /\ Returned = {g \in GridOfClaim(FALSE) :
                          \A d2 \in AtomDists2(g) : d2 >= Sq(args.nn_dist)}
        /\ Cardinality(Returned) = NRows(ret.df)

\* a call with periodic images that returns some grid points and leaves
\* out others, one of them for an image only
C19_Witness ==
    /\ VacanciesDone /\ ~args.remove_dups
    /\ args.repeat_meta # NoMeta
    /\ Returned # {}
    /\ \E g \in GridOfClaim(FALSE) :
          /\ g \notin Returned
          /\ \A r \in DOMAIN atoms_df : Dist2(atoms_df[r], g) >= Sq(args.nn_dist)

\* C20: with remove_dups=True no two returned vacancies are within nn_dist
\* of each other.
C20_NoClosePair ==
    VacanciesDone /\ args.remove_dups =>
        \A a, b \in DOMAIN ret.df :
            a # b => Dist2(ret.df[a], ret.df[b]) > Sq(args.nn_dist)

\* vacancies were found within nn_dist of each other and more than one of
\* them is returned
C20_Witness ==
    /\ VacanciesDone /\ args.remove_dups
    /\ NRows(ret.df) > 1
    /\ LET all == VacList(GridPoints(atoms_df, args.res),
                          VacancyLattice(atoms_df, args.repeat_meta),
                          args.nn_dist)
       IN  NRows(all) > NRows(ret.df)

(***************************************************************************)
(* Claims about atoms without neighbours.                                  *)
(***************************************************************************)
\* row r has no atom (or image) farther than 0.01 and closer than
\* upper_bound, and none but itself within 0.01
Isolated(r) ==
    \A im \in Images :
        \/ ImageDist2(im, atoms_df[r]) >= Sq(args.upper_bound)
        \/ im = <<r, 0, 0, 0>>

\* C21: an atom with no neighbour inside the cutoff gets an empty counter
\* and the label Other at every accuracy, and the analysis does not raise.
C21_IsolatedIsOther ==
    args.fn = "cna_categories" =>
        \A r \in DOMAIN atoms_df :
            Isolated(r) =>
                /\ ret.status = "ok"
                /\ ret.counters[r] = <<>>
                /\ ret.cna[r] = "Other"

\* an isolated atom in a table with atoms that have neighbours, analysed
\* at an accuracy below 1
C21_Witness ==
    /\ CategoriesDone
    /\ args.accuracy < AccDen
    /\ \E r \in DOMAIN atoms_df : Isolated(r)
    /\ \E r \in DOMAIN atoms_df : ret.counters[r] # <<>>

(***************************************************************************)
(* Claims about Atom_Manipulation.                                         *)
(***************************************************************************)
\* C22: no method of Atom_Manipulation (change_variables, filter_variables,
\* repeat_cell, slice_x, slice_y, slice_z, undo_last, revert_to_original, in
\* any sequence) and no analysis call (common_neighbour_analysis,
\* coordination_bytype) modifies the table the caller passed in: the table
\* changes only while the caller builds it, before any call, and no field of
\* the object refers to the caller's table.
C22_CallerTableUntouched ==
    /\ [][atoms_df' # atoms_df => args' = NoCall]_vars
    /\ [](manip # NoManip => CallerRef \notin {manip.new, manip.old, manip.original})

\* change_variables has rewritten the object's table in place, or an
\* analysis has returned a table with its new column, and the caller's
\* table is not the table written
C22_Witness ==
    \/ /\ args.fn = "change_variables"
       /\ Current(manip) # args.before
       /\ atoms_df = args.prev.before
       /\ args.prev.fn = "Atom_Manipulation"
    \/ /\ args.fn = "coordination_bytype"
       /\ ret.df # atoms_df
       /\ \E r \in DOMAIN ret.df : ret.df[r].coord # {}

\* the transformations that assign a new table to the object
Undoable ==
    {"filter_variables", "repeat_cell", "revert_to_original", "slice_x", "slice_y", "slice_z"}

\* C29: undo_last called right after one transformation call
\* (filter_variables, repeat_cell, revert_to_original, or slice_x, slice_y,
\* slice_z with any combination of minval and maxval) makes the current
\* table equal to the table held immediately before that call, and a second
\* undo_last in a row changes nothing.
C29_UndoRestores ==
    args.fn = "undo_last" =>
        /\ (args.prev.fn \in Undoable /\ args.prev.status = "ok") =>
              Current(manip) = args.prev.before
        /\ args.prev.fn = "undo_last" => Current(manip) = args.before

(***************************************************************************)
(* Claims about Visualise_Sim.                                             *)
(***************************************************************************)
\* every transparency of the column is a number in (0, 1]
AllInRange(alphas) ==
    \A n \in DOMAIN alphas : alphas[n] # NaN /\ 0 < alphas[n] /\ alphas[n] <= AlphaDen

\* a table that has the column transparency with an entry outside (0, 1]
BadTransparency(table) ==
    "transparency" \in table.columns /\ ~AllInRange(table.transparency)

\* C23: add_atoms and add_bonds given a table with any transparency outside
\* (0,1], or lacking a required column, fail with an error and leave the
\* lists of atoms and bonds exactly as they were before the call.
C23_BadTableRejected ==
    /\ (/\ args.fn = "add_atoms"
        /\ \/ ~(AtomColumns \subseteq args.atoms_df.columns)
           \/ BadTransparency(args.atoms_df))
          => ret.status # "ok" /\ vis = args.before
    /\ (/\ args.fn = "add_bonds"
        /\ \/ ~(AtomColumns \subseteq args.atoms_df.columns)
           \/ ~(BondColumns \subseteq args.bonds_df.columns)
           \/ {"color", "color_start"} \cap args.bonds_df.columns = {}
           \/ {"color", "color_end"} \cap args.bonds_df.columns = {}
           \/ BadTransparency(args.atoms_df)
           \/ BadTransparency(args.bonds_df))
          => ret.status # "ok" /\ vis = args.before

\* the list without its last n entries
WithoutLast(lst, n) == SubSeq(lst, 1, Len(lst) - n)

RemoveCalls ==
    {"remove_atoms", "remove_bonds", "remove_boxes", "remove_hexagons", "remove_planes"}

\* C24: remove_atoms(n), remove_bonds(n), remove_boxes(n), remove_hexagons(n)
\* and remove_planes(n) remove exactly the last n sets that were added and
\* keep the earlier ones in their order, for every n from 0 up to the number
\* of sets held, after any sequence of add and remove calls; for n larger
\* than that number the call fails and removes nothing.
C24_RemoveLastN ==
    args.fn \in RemoveCalls =>
        LET held == args.before[args.lst]
        IN  /\ (0 <= args.n /\ args.n <= Len(held)) =>
                  /\ ret.status = "ok"
                  /\ vis = [args.before EXCEPT ![args.lst] = WithoutLast(held, args.n)]
            /\ args.n > Len(held) => ret.status # "ok" /\ vis = args.before

\* C30: when basic_vis returns, the lists of atoms, bonds, boxes, hexagons
\* and planes and the axes setting are the same as before the call,
\* whichever of atoms_df, meta and axes were supplied and whatever had been
\* added before.
C30_BasicVisCleansUp ==
    (args.fn = "basic_vis" /\ ret.status = "ok") => vis = args.before

(***************************************************************************)
(* Further claims about common_neighbour_analysis.                         *)
(***************************************************************************)
\* the atoms other than A closer to it than upper_bound, and those of them
\* that are farther from it than 0.01
Others(A) ==
    {B \in DOMAIN atoms_df \ {A} :
        Dist2(atoms_df[A], atoms_df[B]) < Sq(args.upper_bound)}

ValidNbrs(A) ==
    {B \in Others(A) : Dist2(atoms_df[A], atoms_df[B]) > Sq(SelfDist)}

\* the sum of the counts of A's counter
SigTotal(A) == SumOver(ret.cna[A], DOMAIN ret.cna[A])

\* C25 as stated: for every analysed atom A the counts of its counter sum to
\* the number of valid neighbours of A (distance above 0.01 and below
\* upper_bound), which is at most max_neighbours.
C25_OnePerValidNeighbour ==
    CnaDone =>
        \A A \in DOMAIN atoms_df :
            /\ SigTotal(A) = Cardinality(ValidNbrs(A))
            /\ SigTotal(A) <= args.max_neighbours

\* C25 amended: the counts sum to the number of valid neighbours among the
\* max_neighbours nearest other atoms below upper_bound (an atom within
\* 0.01 takes a place among them), which is at most max_neighbours and is
\* the number of all valid neighbours when no more than max_neighbours
\* other atoms lie below upper_bound.
C25_OnePerKeptNeighbour ==
    CnaDone =>
        \A A \in DOMAIN atoms_df :
            /\ \E kept \in SUBSET Others(A) :
                  /\ Cardinality(kept) = Min2(args.max_neighbours, Cardinality(Others(A)))
                  /\ \A b \in kept, c \in Others(A) \ kept :
                        Dist2(atoms_df[A], atoms_df[b]) <= Dist2(atoms_df[A], atoms_df[c])
                  /\ SigTotal(A) = Cardinality(kept \cap ValidNbrs(A))
            /\ SigTotal(A) <= args.max_neighbours
            /\ Cardinality(Others(A)) <= args.max_neighbours =>
                  SigTotal(A) = Cardinality(ValidNbrs(A))

\* an atom with more valid neighbours than max_neighbours, one whose place
\* among the nearest is taken by an atom within 0.01, and one with two
\* neighbours of the same signature
C25_Witness ==
    /\ CnaDone
    /\ \E A \in DOMAIN atoms_df : Cardinality(ValidNbrs(A)) > args.max_neighbours
    /\ \E A \in DOMAIN atoms_df :
          /\ Others(A) # ValidNbrs(A)
          /\ SigTotal(A) < Cardinality(ValidNbrs(A))
    /\ \E A \in DOMAIN atoms_df : \E s \in DOMAIN ret.cna[A] : ret.cna[A][s] >= 2

\* C26: every signature (j,k,l) satisfies l <= k <= j*(j-1)/2 and l <= j,
\* and l = 0 exactly when k = 0.
C26_SignatureBounds ==
    CnaDone =>
        \A A \in DOMAIN atoms_df : \A B \in Nbrs(ret, A) :
            \E j \in 0..MaxAtoms, k \in SigNums, l \in 0..MaxAtoms :
                /\ ret.jkls[A][B] = FormatJkl(j, k, l)
                /\ l <= k
                /\ 2 * k <= j * (j - 1)
                /\ l <= j
                /\ (l = 0) <=> (k = 0)

\* a pair whose three or more shared neighbours form a cycle, which the
\* chain closes: l = k = j
C26_Witness ==
    /\ CnaDone
    /\ \E A \in DOMAIN atoms_df : \E B \in Nbrs(ret, A) :
          \E j \in 3..MaxAtoms : ret.jkls[A][B] = FormatJkl(j, j, j)

\* C27: _longest_path terminates for every adjacency map built by
\* _createTreeFromEdges, cycles included, with a recursion depth of at most
\* the number of nodes plus one, and leaves the caller's map unchanged, so
\* that the l found from one start node does not depend on the searches
\* made from other start nodes.
C27_MapUnchanged ==
    /\ args.fn = "_longest_path" =>
          /\ ret.tree = args.tree
          /\ ret.depth <= Cardinality(DOMAIN args.tree) + 1
          /\ ret.len = _longest_path(args.start, args.tree, NoNode)
    /\ args.fn = "chain_lengths" =>
          /\ ret.tree = args.tree
          /\ ret.l = Max({0} \cup {_longest_path(node, args.tree, NoNode) - 1 :
                                      node \in DOMAIN args.tree})

\* the searches have been made from every node of a map that is one cycle
\* through all its nodes, each search closing the cycle
C27_Witness ==
    /\ args.fn = "chain_lengths"
    /\ Cardinality(DOMAIN args.tree) >= 3
    /\ \A node \in DOMAIN args.tree : Cardinality(args.tree[node]) = 2
    /\ ret.l = Cardinality(DOMAIN args.tree)

(***************************************************************************)
(* A further claim about vacancy_identification.                           *)
(***************************************************************************)
\* the grid points that qualify as vacancies: no atom (or image) is closer
\* than nn_dist
Qualifying ==
    {g \in GridOfClaim(FALSE) : \A d2 \in AtomDists2(g) : d2 >= Sq(args.nn_dist)}

\* C28: with remove_dups=True every grid point that qualifies as a vacancy
\* is either returned or lies within nn_dist of a returned vacancy.
C28_DroppedHaveNeighbour ==
    VacanciesDone /\ args.remove_dups =>
        \A g \in Qualifying :
            \/ g \in Returned
            \/ \E v \in Returned : Dist2(g, v) <= Sq(args.nn_dist)

====
